---------------------------- MODULE Spec2Model ----------------------------
(***************************************************************************)
(* A state-machine model of the simulation core of the "bya" game:         *)
(*   src/src/game/components/Cow.ts  (classes Cow and UFO)                 *)
(*   src/src/game/Game.ts            (class Game: the per-frame tick)      *)
(*   src/unnamed/part_001            (class Terrain)                       *)
(*   src/unnamed/part_002            (class Controls)                      *)
(*                                                                         *)
(* Numbers.  Lengths, speeds and angles are fixed-point integers in        *)
(* thousandths of the source's unit (0.3 is 300); products are truncated   *)
(* toward zero.  Times are milliseconds, as Date.now() returns them.       *)
(***************************************************************************)
EXTENDS Integers, Sequences, FiniteSets, TLC

VARIABLES
    now,                \* the reading of Date.now()
    ufo,                \* the UFO object: position and beam fields
    cows,               \* Game.cows: a sequence of Cow objects
    keys,               \* Controls.keys: the held keys among those it reads
    score,              \* Game.score
    level,              \* Game.level
    colliders,          \* Game.colliders
    lastColliderUpdate, \* Game.lastColliderUpdate
    lastBeamActive,     \* Game.lastBeamActive
    isVictorySequence,  \* Game.isVictorySequence
    victoryStartTime,   \* Game.victoryStartTime
    hist                \* history of the run (observations, not program state)

vars == <<now, ufo, cows, keys, score, level, colliders, lastColliderUpdate,
          lastBeamActive, isVictorySequence, victoryStartTime, hist>>

-----------------------------------------------------------------------------
(* Bounds of the model *)

\* Date.now() at construction (any value far above the 1000 ms intervals).
StartTime == 5000
\* The instants at which the clock is read: the start, half a second, one
\* second and two seconds later, and the instants 6 s and 14 s after the
\* start (in the launch and after the end of a victory sequence begun in
\* the first second).
ClockReadings ==
    {StartTime, StartTime + 500, StartTime + 1000, StartTime + 2000,
     StartTime + 6000, StartTime + 14000}

\* The victory shortcut is pressed, and Math.random() < 0.02 picks a new
\* heading, no later than this long after the start
ShortcutDeadline == 500
WanderDeadline == 0

-----------------------------------------------------------------------------
(* Program constants (lengths in thousandths) *)

BEAM_TIMEOUT == 1000
\* (a variant of BEAM_COOLDOWN: a cooldown twice as long)
BeamCooldownDouble == BEAM_TIMEOUT + BEAM_TIMEOUT
BEAM_COOLDOWN == 1000
BeamRadius == 2000
MaxBeamAltitude == 25000
ReticleLift == 500
TerrainHalfSize == 100000

-----------------------------------------------------------------------------
(* Fixed-point arithmetic *)

Abs(a) == IF a < 0 THEN -a ELSE a

Min(a, b) == IF a < b THEN a ELSE b

Max(a, b) == IF a > b THEN a ELSE b

\* a / b truncated toward zero, b > 0
DivT(a, b) == IF a >= 0 THEN a \div b ELSE -((-a) \div b)

\* the product of two fixed-point numbers
Mul(a, b) == DivT(a * b, 1000)

RECURSIVE SqrtSearch(_, _, _)
SqrtSearch(n, lo, hi) ==
    IF hi - lo <= 1 THEN lo
    ELSE LET mid == (lo + hi) \div 2
         IN  IF mid * mid <= n THEN SqrtSearch(n, mid, hi)
                               ELSE SqrtSearch(n, lo, mid)

\* floor of the square root (of a number below 2^31, so the root is below 46341)
ISqrt(n) == IF n <= 0 THEN 0 ELSE SqrtSearch(n, 0, Min(n + 1, 46341))

\* THREE.Vector2.length of (dx, dz); exact when one component is 0.  Beyond
\* 32 units the squares would pass 2^31 and the length is taken in
\* hundredths.
Length2(dx, dz) ==
    IF Abs(dx) <= 32000 /\ Abs(dz) <= 32000
    THEN ISqrt(dx * dx + dz * dz)
    ELSE 10 * ISqrt(DivT(dx, 10) * DivT(dx, 10) + DivT(dz, 10) * DivT(dz, 10))

\* THREE.Vector3.length, in hundredths beyond 26 units
Length3(dx, dy, dz) ==
    IF Abs(dx) <= 26000 /\ Abs(dy) <= 26000 /\ Abs(dz) <= 26000
    THEN ISqrt(dx * dx + dy * dy + dz * dz)
    ELSE 10 * ISqrt(DivT(dx, 10) * DivT(dx, 10) + DivT(dy, 10) * DivT(dy, 10)
                    + DivT(dz, 10) * DivT(dz, 10))

Vec(x, y, z) == [x |-> x, y |-> y, z |-> z]

\* THREE.Vector3.normalize of a horizontal vector: divideScalar(length || 1)
DivideScalar(dx, dz, len) ==
    IF len = 0 THEN [x |-> 0, z |-> 0]
    ELSE [x |-> DivT(dx * 1000, len), z |-> DivT(dz * 1000, len)]

Normalize2(dx, dz) == DivideScalar(dx, dz, Length2(dx, dz))

\* an optional value: <<>> is null, <<v>> is v
Null == <<>>

Some(v) == <<v>>

-----------------------------------------------------------------------------
(* Terrain (src/unnamed/part_001) *)

\* Terrain.getHeightAt sampled on the line x = 0 at z = -2.0, -1.5, ..., 10.0
\* (the values the source's noise sum takes there, in thousandths).
HeightSamples ==
    << -8144, -8065, -8021, -8003, -8000, -7997, -7979, -7935, -7856,
       -7739, -7583, -7389, -7160, -6901, -6618, -6318, -6009, -5696,
       -5387, -5088, -4800, -4528, -4270, -4022, -3779 >>

\* Terrain.getHeightAt sampled on the line x = 10 at z = 38.0, 38.5, ...,
\* 42.0: a slope of the hill in the far half of the field, above the
\* height 0.4 at which a cow stands
HillLane == 10000

HillStart == 38000

HillSamples == << 2320, 2397, 2473, 2547, 2617, 2683, 2744, 2798, 2847 >>

\* A variant of Terrain.getHeightAt whose result depends on when it is
\* called
HeightAtByTheClock(x, z) ==
    LET k == (z \div 500) + 5
    IN  (IF x = HillLane /\ z >= HillStart
               /\ z < HillStart + 500 * Len(HillSamples)
         THEN HillSamples[((z - HillStart) \div 500) + 1]
         ELSE HeightSamples[Max(1, Min(Len(HeightSamples), k))])
            + (IF now > StartTime THEN 1 ELSE 0)

\* Terrain.getHeightAt: a function of the coordinates alone.  The model
\* looks the height up in the sample below z (the terrain is taken to be
\* constant in x and beyond the sampled stretch), and on the line of the
\* hill in the samples taken there.
HeightAt(x, z) ==
    IF x = HillLane /\ z >= HillStart /\ z < HillStart + 500 * Len(HillSamples)
    THEN HillSamples[((z - HillStart) \div 500) + 1]
    ELSE LET k == (z \div 500) + 5
         IN  HeightSamples[Max(1, Min(Len(HeightSamples), k))]

-----------------------------------------------------------------------------
(* UFO (src/src/game/components/Cow.ts, class UFO) *)

\* UFO.getGroundHeight
GroundHeight(u) == HeightAt(u.pos.x, u.pos.z)

\* y - getGroundHeight(), as toggleBeam and updateReticle compute it
Altitude(u) == u.pos.y - GroundHeight(u)

\* UFO.updateStatusLights: the state it changes (the lights are presentation)
UpdateStatusLights(u, t) ==
    IF u.isBeamOnCooldown /\ t >= u.beamCooldownEndTime
    THEN [u EXCEPT !.isBeamOnCooldown = FALSE, !.beamCooldownEndTime = 0]
    ELSE u

\* UFO.isOnCooldown: the value returned
IsOnCooldown(u, t) == u.isBeamOnCooldown /\ t < u.beamCooldownEndTime

\* UFO.isOnCooldown: the object after the call
AfterIsOnCooldown(u, t) ==
    IF u.isBeamOnCooldown /\ ~IsOnCooldown(u, t)
    THEN UpdateStatusLights(
             [u EXCEPT !.isBeamOnCooldown = FALSE, !.beamCooldownEndTime = 0], t)
    ELSE u

\* The downward ray of updateReticle meets the terrain mesh (a square of
\* side 200 centred on the origin) when the UFO is above it.
RayHitsTerrain(u) ==
    /\ Abs(u.pos.x) <= TerrainHalfSize
    /\ Abs(u.pos.z) <= TerrainHalfSize

\* UFO.updateReticle
UpdateReticle(u, t) ==
    LET isInRange == Altitude(u) <= MaxBeamAltitude
        \* !isBeamActive && !isOnCooldown(): the query runs only if inactive
        u1 == IF u.isBeamActive THEN u ELSE AfterIsOnCooldown(u, t)
        isAvailable == ~u.isBeamActive /\ ~IsOnCooldown(u, t)
        showReticle == isInRange /\ isAvailable
    IN  IF ~showReticle
        THEN [u1 EXCEPT !.reticleVisible = FALSE]
        ELSE IF RayHitsTerrain(u1)
        THEN [u1 EXCEPT !.reticleVisible = TRUE,
                        !.lastBeamGroundPosition =
                            Some(Vec(u1.pos.x, GroundHeight(u1) + ReticleLift, u1.pos.z))]
        ELSE [u1 EXCEPT !.reticleVisible = FALSE,
                        !.lastBeamGroundPosition = Null]

\* A variant of UFO.toggleBeam(false) that clears the cooldown as well
ToggleBeamOffClearingCooldown(u, t) ==
    UpdateReticle([u EXCEPT !.isBeamActive = FALSE,
                            !.hasActiveCowInBeam = FALSE,
                            !.spacebarWasReleased = TRUE,
                            !.isBeamOnCooldown = FALSE,
                            !.beamCooldownEndTime = 0], t)

\* UFO.toggleBeam(false)
ToggleBeamOff(u, t) ==
    UpdateReticle([u EXCEPT !.isBeamActive = FALSE,
                            !.hasActiveCowInBeam = FALSE,
                            !.spacebarWasReleased = TRUE], t)

\* A variant of UFO.toggleBeam(true) without the cooldown test
ToggleBeamOnDespiteCooldown(u, t) ==
    IF ~u.spacebarWasReleased THEN u
    ELSE LET u1 == [u EXCEPT !.isBeamOnCooldown = FALSE]
         IN  IF Altitude(u1) > MaxBeamAltitude THEN u1
             ELSE IF ~u1.isBeamActive
             THEN [u1 EXCEPT !.isBeamActive = TRUE,
                             !.beamActivationTime = t,
                             !.hasActiveCowInBeam = FALSE,
                             !.spacebarWasReleased = FALSE,
                             !.reticleVisible = FALSE]
             ELSE u1

\* A variant of UFO.toggleBeam(true) that marks the trigger held even when
\* the altitude forbids the activation
ToggleBeamOnMarkingHeld(u, t) ==
    IF ~u.spacebarWasReleased THEN u
    ELSE IF u.isBeamOnCooldown /\ t < u.beamCooldownEndTime THEN u
    ELSE LET u1 == [u EXCEPT !.isBeamOnCooldown = FALSE]
         IN  IF Altitude(u1) > MaxBeamAltitude
             THEN [u1 EXCEPT !.spacebarWasReleased = FALSE]
             ELSE IF ~u1.isBeamActive
             THEN [u1 EXCEPT !.isBeamActive = TRUE,
                             !.beamActivationTime = t,
                             !.hasActiveCowInBeam = FALSE,
                             !.spacebarWasReleased = FALSE,
                             !.reticleVisible = FALSE]
             ELSE u1

\* A variant of UFO.toggleBeam(true) that leaves the trigger marked released
ToggleBeamOnLeavingReleased(u, t) ==
    IF ~u.spacebarWasReleased THEN u
    ELSE IF u.isBeamOnCooldown /\ t < u.beamCooldownEndTime THEN u
    ELSE LET u1 == [u EXCEPT !.isBeamOnCooldown = FALSE]
         IN  IF Altitude(u1) > MaxBeamAltitude THEN u1
             ELSE IF ~u1.isBeamActive
             THEN [u1 EXCEPT !.isBeamActive = TRUE,
                             !.beamActivationTime = t,
                             !.hasActiveCowInBeam = FALSE,
                             !.reticleVisible = FALSE]
             ELSE u1

\* UFO.toggleBeam(true)
ToggleBeamOn(u, t) ==
    IF ~u.spacebarWasReleased THEN u
    ELSE IF u.isBeamOnCooldown /\ t < u.beamCooldownEndTime THEN u
    ELSE LET u1 == [u EXCEPT !.isBeamOnCooldown = FALSE]
         IN  IF Altitude(u1) > MaxBeamAltitude THEN u1
             ELSE IF ~u1.isBeamActive
             THEN [u1 EXCEPT !.isBeamActive = TRUE,
                             !.beamActivationTime = t,
                             !.hasActiveCowInBeam = FALSE,
                             !.spacebarWasReleased = FALSE,
                             !.reticleVisible = FALSE]
             ELSE u1

\* UFO.toggleBeam
ToggleBeam(u, active, t) ==
    IF active THEN ToggleBeamOn(u, t) ELSE ToggleBeamOff(u, t)

\* A variant of UFO.checkBeamTimeout that waits for more than BEAM_TIMEOUT
CheckBeamTimeoutLate(u, t) ==
    LET u1 == IF u.isBeamOnCooldown /\ t >= u.beamCooldownEndTime
              THEN [u EXCEPT !.isBeamOnCooldown = FALSE,
                             !.beamCooldownEndTime = 0]
              ELSE u
        u2 == IF /\ u1.isBeamActive
                 /\ ~u1.hasActiveCowInBeam
                 /\ t - u1.beamActivationTime > BEAM_TIMEOUT
              THEN [u1 EXCEPT !.isBeamActive = FALSE,
                              !.isBeamOnCooldown = TRUE,
                              !.beamCooldownEndTime = t + BEAM_COOLDOWN]
              ELSE u1
    IN  UpdateStatusLights(u2, t)

\* A variant of UFO.checkBeamTimeout that times the beam out whether or not
\* a cow was caught
CheckBeamTimeoutRegardless(u, t) ==
    LET u1 == IF u.isBeamOnCooldown /\ t >= u.beamCooldownEndTime
              THEN [u EXCEPT !.isBeamOnCooldown = FALSE,
                             !.beamCooldownEndTime = 0]
              ELSE u
        u2 == IF /\ u1.isBeamActive
                 /\ t - u1.beamActivationTime >= BEAM_TIMEOUT
              THEN [u1 EXCEPT !.isBeamActive = FALSE,
                              !.isBeamOnCooldown = TRUE,
                              !.beamCooldownEndTime = t + BEAM_COOLDOWN]
              ELSE u1
    IN  UpdateStatusLights(u2, t)

\* UFO.checkBeamTimeout
CheckBeamTimeout(u, t) ==
    LET u1 == IF u.isBeamOnCooldown /\ t >= u.beamCooldownEndTime
              THEN [u EXCEPT !.isBeamOnCooldown = FALSE,
                             !.beamCooldownEndTime = 0]
              ELSE u
        u2 == IF /\ u1.isBeamActive
                 /\ ~u1.hasActiveCowInBeam
                 /\ t - u1.beamActivationTime >= BEAM_TIMEOUT
              THEN [u1 EXCEPT !.isBeamActive = FALSE,
                              !.isBeamOnCooldown = TRUE,
                              !.beamCooldownEndTime = t + BEAM_COOLDOWN]
              ELSE u1
    IN  UpdateStatusLights(u2, t)

\* UFO.resetBeamCooldown
ResetBeamCooldown(u) ==
    [u EXCEPT !.isBeamOnCooldown = FALSE,
              !.beamCooldownEndTime = 0,
              !.hasActiveCowInBeam = TRUE]

\* A variant of UFO.startCooldownAfterCapture that leaves the beam on
StartCooldownKeepingBeam(u, t) ==
    [u EXCEPT !.isBeamOnCooldown = TRUE,
              !.beamCooldownEndTime = t + BEAM_COOLDOWN,
              !.hasActiveCowInBeam = FALSE,
              !.spacebarWasReleased = TRUE]

\* A variant of UFO.startCooldownAfterCapture that leaves the trigger as it
\* is marked
StartCooldownTriggerHeld(u, t) ==
    [u EXCEPT !.isBeamActive = FALSE,
              !.isBeamOnCooldown = TRUE,
              !.beamCooldownEndTime = t + BEAM_COOLDOWN,
              !.hasActiveCowInBeam = FALSE]

\* UFO.startCooldownAfterCapture
StartCooldownAfterCapture(u, t) ==
    [u EXCEPT !.isBeamActive = FALSE,
              !.isBeamOnCooldown = TRUE,
              !.beamCooldownEndTime = t + BEAM_COOLDOWN,
              !.hasActiveCowInBeam = FALSE,
              !.spacebarWasReleased = TRUE]

\* UFO.setPosition
UfoSetPosition(u, x, y, z) == [u EXCEPT !.pos = Vec(x, y, z)]

\* The UFO after its constructor, placed at height y0
NewUfo(y0) ==
    [ pos |-> Vec(0, y0, 0),
      rotY |-> 0,
      isBeamActive |-> FALSE,
      beamActivationTime |-> 0,
      isBeamOnCooldown |-> FALSE,
      beamCooldownEndTime |-> 0,
      hasActiveCowInBeam |-> FALSE,
      spacebarWasReleased |-> TRUE,
      reticleVisible |-> TRUE,
      lastBeamGroundPosition |-> Null ]

-----------------------------------------------------------------------------
(* Cow (src/src/game/components/Cow.ts, class Cow) *)

MoveSpeed == 100
FleeDistance == 15000
FleeSpeed == 300
BaseHeight == 400
GRAVITY == 15
TERMINAL_VELOCITY == -500
BEAM_CENTER_FORCE == 800
SnapDistance == 3000
\* (a variant of SnapRadius: the snap puts the cow where the snap begins)
SnapRadiusWide == SnapDistance
SnapRadius == 2000
CenterEpsilon == 10
\* (a variant of MaxCenteringForce: a quarter of the snap radius)
MaxCenteringForceWeak == SnapRadius \div 4
MaxCenteringForce == 1000
LiftRadius == 2000
InitialLiftSpeed == 200
MaxLiftSpeed == 500
LiftGrowth == 1050
InitialSpinSpeed == 100
Damping == 950
TargetTilt == 1571
TiltEpsilon == 10
TiltRate == 100

\* The heading Math.random() picks for a wandering cow in the model:
\* (cos, sin) of the angle pi/2.
WanderHeadings == { [x |-> 0, z |-> 1000] }

\* A Cow after its constructor and the setPosition of Game.spawnCows
NewCow(x, y, z) ==
    [ pos |-> Vec(x, y, z),
      vel |-> [x |-> 0, z |-> 0],
      isBeingAbducted |-> FALSE,
      abductionTarget |-> Null,
      abductionSpeed |-> 100,
      spinSpeed |-> InitialSpinSpeed,
      isFalling |-> FALSE,
      fallVelocity |-> 0,
      rotX |-> 0 ]

\* A variant of the falling branch of Cow.update without the terminal velocity
UpdateFallingUnbounded(c) ==
    [c EXCEPT !.fallVelocity = c.fallVelocity - GRAVITY,
              !.pos.y = c.pos.y + (c.fallVelocity - GRAVITY),
              !.spinSpeed = Mul(c.spinSpeed, Damping),
              !.rotX = IF Abs(c.rotX) > TiltEpsilon
                       THEN Mul(c.rotX, Damping) ELSE c.rotX]

\* Cow.update, the branch taken while falling
UpdateFalling(c) ==
    LET fv == Max(c.fallVelocity - GRAVITY, TERMINAL_VELOCITY)
    IN  [c EXCEPT !.fallVelocity = fv,
                  !.pos.y = c.pos.y + fv,
                  !.spinSpeed = Mul(c.spinSpeed, Damping),
                  !.rotX = IF Abs(c.rotX) > TiltEpsilon
                           THEN Mul(c.rotX, Damping) ELSE c.rotX]

\* Cow.update, the branch taken while being abducted: the move toward the
\* target, horizontalDistance away in the direction dir
AbductedMove(c, target, horizontalDistance, dir) ==
    LET centeringForce ==
            Min(Mul(BEAM_CENTER_FORCE, horizontalDistance), MaxCenteringForce)
        nx == IF horizontalDistance > SnapDistance
              THEN target.x - Mul(dir.x, SnapRadius)
              ELSE IF horizontalDistance > CenterEpsilon
              THEN c.pos.x + Mul(dir.x, centeringForce)
              ELSE c.pos.x
        nz == IF horizontalDistance > SnapDistance
              THEN target.z - Mul(dir.z, SnapRadius)
              ELSE IF horizontalDistance > CenterEpsilon
              THEN c.pos.z + Mul(dir.z, centeringForce)
              ELSE c.pos.z
        centered == horizontalDistance < LiftRadius
        ny == IF centered THEN c.pos.y + c.abductionSpeed ELSE c.pos.y
        speed == IF centered
                 THEN Min(Mul(c.abductionSpeed, LiftGrowth), MaxLiftSpeed)
                 ELSE InitialLiftSpeed
    IN  [c EXCEPT !.abductionTarget = Some(target),
                  !.pos = Vec(nx, ny, nz),
                  !.abductionSpeed = speed,
                  !.rotX = IF Abs(c.rotX - TargetTilt) > TiltEpsilon
                           THEN c.rotX + Mul(TargetTilt - c.rotX, TiltRate)
                           ELSE c.rotX]

\* Cow.update, the branch taken while being abducted
UpdateAbducted(c, ufoPos) ==
    AbductedMove(c,
        [c.abductionTarget[1] EXCEPT !.x = ufoPos.x, !.z = ufoPos.z],
        Length2(ufoPos.x - c.pos.x, ufoPos.z - c.pos.z),
        Normalize2(ufoPos.x - c.pos.x, ufoPos.z - c.pos.z))

\* Cow.update, the wandering and fleeing branch: the step with velocity v
FreeMove(c, v) ==
    [c EXCEPT !.pos.x = c.pos.x + v.x,
              !.pos.z = c.pos.z + v.z,
              !.vel = [x |-> Mul(v.x, Damping), z |-> Mul(v.z, Damping)]]

\* the vector v scaled by the fixed-point number k
Scale2(v, k) == [x |-> Mul(v.x, k), z |-> Mul(v.z, k)]

\* Cow.update, the wandering and fleeing branch; heading is the pick of
\* Math.random(): Null (no new heading this frame) or Some(a heading)
UpdateFree(c, ufoPos, heading) ==
    FreeMove(c,
        IF Length3(ufoPos.x - c.pos.x, ufoPos.y - c.pos.y, ufoPos.z - c.pos.z)
               < FleeDistance
        THEN Scale2(Normalize2(ufoPos.x - c.pos.x, ufoPos.z - c.pos.z), -FleeSpeed)
        ELSE IF heading # Null THEN Scale2(heading[1], MoveSpeed)
        ELSE c.vel)

\* Cow.update
CowUpdate(c, ufoPos, heading) ==
    IF c.isFalling THEN UpdateFalling(c)
    ELSE IF c.isBeingAbducted /\ c.abductionTarget # Null
    THEN UpdateAbducted(c, ufoPos)
    ELSE UpdateFree(c, ufoPos, heading)

\* A variant of Cow.startAbduction that leaves the falling flag as it is
StartAbductionStillFalling(c, targetPosition) ==
    [c EXCEPT !.isBeingAbducted = TRUE,
              !.abductionTarget = Some(targetPosition),
              !.abductionSpeed = InitialLiftSpeed,
              !.spinSpeed = InitialSpinSpeed,
              !.fallVelocity = 0,
              !.vel = [x |-> 0, z |-> 0]]

\* Cow.startAbduction
StartAbduction(c, targetPosition) ==
    [c EXCEPT !.isBeingAbducted = TRUE,
              !.isFalling = FALSE,
              !.abductionTarget = Some(targetPosition),
              !.abductionSpeed = InitialLiftSpeed,
              !.spinSpeed = InitialSpinSpeed,
              !.fallVelocity = 0,
              !.vel = [x |-> 0, z |-> 0]]

\* A variant of Cow.stopAbduction that keeps the target
StopAbductionKeepingTarget(c) ==
    [c EXCEPT !.isBeingAbducted = FALSE,
              !.isFalling = TRUE,
              !.fallVelocity = 0,
              !.abductionSpeed = InitialLiftSpeed]

\* Cow.stopAbduction
StopAbduction(c) ==
    [c EXCEPT !.isBeingAbducted = FALSE,
              !.isFalling = TRUE,
              !.abductionTarget = Null,
              !.fallVelocity = 0,
              !.abductionSpeed = InitialLiftSpeed]

\* A variant of Cow.setPosition that lands a falling cow only below the
\* base height
CowSetPositionBelowOnly(c, x, y, z) ==
    LET c1 == [c EXCEPT !.pos = Vec(x, y, z)]
    IN  IF c.isFalling /\ y < BaseHeight
        THEN [c1 EXCEPT !.isFalling = FALSE,
                        !.fallVelocity = 0,
                        !.spinSpeed = 0,
                        !.rotX = 0,
                        !.vel = [x |-> 0, z |-> 0]]
        ELSE c1

\* Cow.setPosition
CowSetPosition(c, x, y, z) ==
    LET c1 == [c EXCEPT !.pos = Vec(x, y, z)]
    IN  IF c.isFalling /\ y <= BaseHeight
        THEN [c1 EXCEPT !.isFalling = FALSE,
                        !.fallVelocity = 0,
                        !.spinSpeed = 0,
                        !.rotX = 0,
                        !.vel = [x |-> 0, z |-> 0]]
        ELSE c1

\* Cow.fleeFrom
FleeFrom(c, target) ==
    [c EXCEPT !.vel = Scale2(Normalize2(c.pos.x - target.x, c.pos.z - target.z),
                             FleeSpeed)]

-----------------------------------------------------------------------------
(* The decoration tree of the terrain (src/unnamed/part_001) *)

Node(kind, type, pos, radius) ==
    [kind |-> kind, type |-> type, pos |-> pos, collisionRadius |-> radius]

\* What Terrain.mesh.traverse visits: the terrain group itself (typed
\* 'terrain' by Game.initialize), the ground mesh (no type), and of the
\* decorations one tree, the farmhouse and the first fence segment, each a
\* THREE.Group followed by its parts.  type "" stands for no userData.type,
\* radius 0 for no userData.collisionRadius.
TerrainNodes ==
    << Node("Group", "terrain", Vec(0, 0, 0), 0),
       Node("Mesh", "", Vec(0, 0, 0), 0),
       Node("Group", "tree", Vec(0, HeightAt(0, 5500), 5500), 2000),
       Node("Mesh", "tree_part", Vec(0, 1000, 0), 0),
       Node("Mesh", "tree_part", Vec(0, 4000, 0), 0),
       Node("Group", "building", Vec(20000, HeightAt(20000, 20000) + 3000, 20000), 6000),
       Node("Mesh", "building_part", Vec(0, 0, 0), 0),
       Node("Mesh", "building_part", Vec(0, 5000, 0), 0),
       Node("Group", "fence", Vec(30000, HeightAt(30000, 0), 0), 1000),
       Node("Mesh", "fence_part", Vec(0, 0, 0), 0),
       Node("Mesh", "fence_part", Vec(2000, 500, 0), 0),
       Node("Mesh", "fence_part", Vec(2000, 1000, 0), 0) >>

\* String.endsWith('_part') on the type tags in use
EndsWithPart(type) == type \in {"tree_part", "building_part", "fence_part"}

\* Terrain.getColliders
GetColliders ==
    SelectSeq(TerrainNodes,
              LAMBDA n : /\ n.type # ""
                         /\ ~EndsWithPart(n.type)
                         /\ ~(n.pos.x = 0 /\ n.pos.y = 0 /\ n.pos.z = 0))

-----------------------------------------------------------------------------
(* Controls (src/unnamed/part_002) *)

UfoMoveSpeed == 500
UfoRotateSpeed == 50
UfoVerticalSpeed == 300

\* Math.sin and Math.cos of a small angle (their series up to the terms
\* that matter at three decimals)
SinMilli(a) == a - DivT(a * a * a, 6000000)

CosMilli(a) == 1000 - DivT(a * a, 2000)

\* Controls.getNextPosition
GetNextPosition(u, ks) ==
    LET moving == ks \cap {"arrowup", "arrowdown", "keyw", "keys"} # {}
        speed == IF "arrowup" \in ks \/ "keyw" \in ks
                 THEN UfoMoveSpeed ELSE -UfoMoveSpeed
        mx == IF moving THEN Mul(SinMilli(u.rotY), speed) ELSE 0
        mz == IF moving THEN Mul(CosMilli(u.rotY), speed) ELSE 0
        my == (IF "keyz" \in ks THEN UfoVerticalSpeed ELSE 0)
              - (IF "keyx" \in ks THEN UfoVerticalSpeed ELSE 0)
    IN  Vec(u.pos.x + mx, u.pos.y + my, u.pos.z + mz)

\* Controls.update
ControlsUpdate(u, ks) ==
    LET p == GetNextPosition(u, ks)
        u1 == UfoSetPosition(u, p.x, p.y, p.z)
        u2 == IF "arrowleft" \in ks \/ "keya" \in ks
              THEN [u1 EXCEPT !.rotY = u1.rotY + UfoRotateSpeed] ELSE u1
    IN  IF "arrowright" \in ks \/ "keyd" \in ks
        THEN [u2 EXCEPT !.rotY = u2.rotY - UfoRotateSpeed] ELSE u2

-----------------------------------------------------------------------------
(* Game (src/src/game/Game.ts) *)

COLLIDER_UPDATE_INTERVAL == 1000
UfoRadius == 2000
MaxAltitude == 50000
FloorClearance == 2000
ColliderRange == 10000
DefaultColliderRadius == 1000
TreeCollisionHeight == 6000
BuildingCollisionHeight == 8000
DefaultCollisionHeight == 2000
CapturePoints == 10
AbductionTargetDrop == 2000
CaptureDistance == 2000
FleeRadius == 13000
ResetHeight == 10000
LaunchStart == 5000
LaunchEnd == 7000
VictoryEnd == 13000

\* The game object g is the record of the fields of Game, with the UFO and
\* the key set of Controls:
\*   [ufo, cows, keys, score, level, colliders, lastColliderUpdate,
\*    lastBeamActive, isVictorySequence, victoryStartTime]

\* A variant of Game.updateColliders that re-scans as soon as the interval
\* has elapsed
UpdateCollidersAtInterval(g, t) ==
    IF t - g.lastColliderUpdate >= COLLIDER_UPDATE_INTERVAL
    THEN [g EXCEPT !.colliders = GetColliders, !.lastColliderUpdate = t]
    ELSE g

\* Game.updateColliders
UpdateColliders(g, t) ==
    IF t - g.lastColliderUpdate > COLLIDER_UPDATE_INTERVAL
    THEN [g EXCEPT !.colliders = GetColliders, !.lastColliderUpdate = t]
    ELSE g

\* The collision height Game.checkCollision derives from a collider's type
CollisionHeight(collider) ==
    IF collider.type = "tree" THEN TreeCollisionHeight
    ELSE IF collider.type = "building" THEN BuildingCollisionHeight
    ELSE DefaultCollisionHeight

\* collider.userData.collisionRadius || 1
ColliderRadius(collider) ==
    IF collider.collisionRadius = 0 THEN DefaultColliderRadius
    ELSE collider.collisionRadius

\* A variant of the test made on one collider in which either overlap is
\* enough
UfoHitsColliderEither(collider, newPosition, radius) ==
    LET horizontalDistance == Length2(newPosition.x - collider.pos.x,
                                      newPosition.z - collider.pos.z)
        verticalDistance == Abs(newPosition.y - collider.pos.y)
    IN  /\ horizontalDistance < ColliderRange
        /\ \/ horizontalDistance < radius + ColliderRadius(collider)
           \/ verticalDistance < CollisionHeight(collider)

\* Game.checkCollision for the UFO, the test made on one collider
UfoHitsCollider(collider, newPosition, radius) ==
    LET horizontalDistance == Length2(newPosition.x - collider.pos.x,
                                      newPosition.z - collider.pos.z)
        verticalDistance == Abs(newPosition.y - collider.pos.y)
    IN  /\ horizontalDistance < ColliderRange
        /\ horizontalDistance < radius + ColliderRadius(collider)
        /\ verticalDistance < CollisionHeight(collider)

\* A variant of the altitude ceiling that stops only an ascent, comparing
\* heights and not altitudes
CeilingRejectsAscent(u, newPosition) ==
    /\ u.pos.y - HeightAt(u.pos.x, u.pos.z) >= MaxAltitude
    /\ newPosition.y > u.pos.y

\* Game.checkCollision for the UFO: the altitude ceiling
CeilingRejects(u, newPosition) ==
    LET newAltitude == newPosition.y - HeightAt(newPosition.x, newPosition.z)
        currentAltitude == u.pos.y - HeightAt(u.pos.x, u.pos.z)
    IN  currentAltitude >= MaxAltitude /\ newAltitude > currentAltitude

\* A variant of the floor clearance that stops the UFO only at the ground
FloorRejectsAtGround(newPosition) ==
    newPosition.y < HeightAt(newPosition.x, newPosition.z)

\* Game.checkCollision for the UFO: the floor clearance
FloorRejects(newPosition) ==
    newPosition.y < HeightAt(newPosition.x, newPosition.z) + FloorClearance

\* Game.checkCollision(this.ufo.getMesh(), newPosition, radius): the value
\* returned and the game after the call (the colliders may be refreshed)
CheckCollisionUfo(g, newPosition, radius, t) ==
    IF CeilingRejects(g.ufo, newPosition) \/ FloorRejects(newPosition)
    THEN [hit |-> TRUE, g |-> g]
    ELSE LET g1 == UpdateColliders(g, t)
         IN  [hit |-> \E i \in 1..Len(g1.colliders) :
                          UfoHitsCollider(g1.colliders[i], newPosition, radius),
              g |-> g1]

\* A variant of Game.updateScore that adds the points twice
UpdateScoreTwice(g, points) == [g EXCEPT !.score = g.score + points + points]

\* Game.updateScore
UpdateScore(g, points) == [g EXCEPT !.score = g.score + points]

\* Game.updateLevel
UpdateLevel(g, lvl) == [g EXCEPT !.level = lvl]

\* Game.startVictorySequence
StartVictorySequence(g, t) ==
    [g EXCEPT !.isVictorySequence = TRUE, !.victoryStartTime = t]

\* Game.spawnCows: spawn is the sequence of the (x, z) Math.random() picks
SpawnCows(g, spawn) ==
    [g EXCEPT !.cows = g.cows \o
        [i \in 1..Len(spawn) |->
            CowSetPosition(NewCow(0, 0, 0), spawn[i].x,
                           HeightAt(spawn[i].x, spawn[i].z), spawn[i].z)]]

\* The collider loop of Game.initialize and Game.resetGame: only instances of
\* THREE.Mesh with one of the three types are kept, with the radius of the type
TypedMeshColliders ==
    LET kept == SelectSeq(GetColliders,
                    LAMBDA n : /\ n.kind = "Mesh"
                               /\ n.type # ""
                               /\ n.type \in {"tree", "building", "fence"})
    IN  [i \in 1..Len(kept) |->
            [kept[i] EXCEPT !.collisionRadius =
                IF kept[i].type = "tree" THEN 2000
                ELSE IF kept[i].type = "building" THEN 4000 ELSE 500]]

\* Game.resetGame
ResetGame(g, spawn) ==
    LET g1 == [g EXCEPT !.cows = << >>,
                        !.ufo = [UfoSetPosition(g.ufo, 0, ResetHeight, 0)
                                     EXCEPT !.rotY = 0]]
        g2 == SpawnCows(g1, spawn)
    IN  [g2 EXCEPT !.colliders = TypedMeshColliders]

\* Game.updateVictorySequence (the camera and the message are presentation)
UpdateVictorySequence(g, t, spawn) ==
    LET elapsed == t - g.victoryStartTime
    IN  IF ~g.isVictorySequence THEN g
        ELSE IF elapsed < LaunchStart THEN g
        ELSE IF elapsed < LaunchEnd
        THEN \* newY = y + progress * 100 * launchSpeed, progress = (elapsed - 5000) / 2000
             [g EXCEPT !.ufo = UfoSetPosition(g.ufo, g.ufo.pos.x,
                                   g.ufo.pos.y + (elapsed - LaunchStart) * 100,
                                   g.ufo.pos.z)]
        ELSE IF elapsed < VictoryEnd THEN g
        ELSE ResetGame(UpdateLevel([g EXCEPT !.isVictorySequence = FALSE],
                                   g.level + 1), spawn)

\* A variant of the body of the forEach of Game.checkCowAbduction that
\* starts the victory sequence at every capture
AbductionStepEager(a, i, ufoPosition, t) ==
    LET cow == a.objs[i]
        horizontalDistance == Length2(cow.pos.x - ufoPosition.x,
                                      cow.pos.z - ufoPosition.z)
        verticalDistance == ufoPosition.y - cow.pos.y
    IN  IF ~(horizontalDistance < BeamRadius) THEN a
        ELSE IF ~cow.isBeingAbducted
        THEN [a EXCEPT
                !.g.ufo = [a.g.ufo EXCEPT !.isBeamOnCooldown = FALSE,
                                          !.beamCooldownEndTime = 0,
                                          !.hasActiveCowInBeam = TRUE],
                !.objs[i] = StartAbduction(cow,
                                Vec(ufoPosition.x,
                                    ufoPosition.y - 2000,
                                    ufoPosition.z)),
                !.started = a.started \cup {i}]
        ELSE IF verticalDistance < 2000
        THEN [a EXCEPT
                !.g = [a.g EXCEPT !.score = a.g.score + 10,
                                  !.isVictorySequence = TRUE,
                                  !.victoryStartTime = t],
                !.alive = a.alive \ {i},
                !.hasCaughtAnyCows = TRUE,
                !.captured = a.captured \cup {i},
                !.victories = a.victories + 1]
        ELSE [a EXCEPT !.cowsInBeam = a.cowsInBeam + 1]

\* A variant of the body of the forEach of Game.checkCowAbduction that
\* collects a cow found in the beam at once, lifted or not
AbductionStepAtOnce(a, i, ufoPosition, t) ==
    LET cow == a.objs[i]
        horizontalDistance == Length2(cow.pos.x - ufoPosition.x,
                                      cow.pos.z - ufoPosition.z)
        alive == a.alive \ {i}
        g1 == UpdateScore(a.g, CapturePoints)
    IN  IF ~(horizontalDistance < BeamRadius) THEN a
        ELSE [a EXCEPT
                !.g = IF alive = {} THEN StartVictorySequence(g1, t) ELSE g1,
                !.alive = alive,
                !.hasCaughtAnyCows = TRUE,
                !.captured = a.captured \cup {i},
                !.victories = a.victories + (IF alive = {} THEN 1 ELSE 0)]

\* Game.checkCowAbduction, the body of the forEach for the cow at index i of
\* the array being iterated.  a.objs holds the Cow objects of that array,
\* a.alive the indices still in this.cows, a.g the game.
AbductionStep(a, i, ufoPosition, t) ==
    LET cow == a.objs[i]
        horizontalDistance == Length2(cow.pos.x - ufoPosition.x,
                                      cow.pos.z - ufoPosition.z)
        verticalDistance == ufoPosition.y - cow.pos.y
    IN  IF ~(horizontalDistance < BeamRadius) THEN a
        ELSE IF ~cow.isBeingAbducted
        THEN [a EXCEPT
                !.g.ufo = ResetBeamCooldown(a.g.ufo),
                !.objs[i] = StartAbduction(cow,
                                Vec(ufoPosition.x,
                                    ufoPosition.y - AbductionTargetDrop,
                                    ufoPosition.z)),
                !.started = a.started \cup {i}]
        ELSE IF verticalDistance < CaptureDistance
        THEN LET alive == a.alive \ {i}
                 g1 == UpdateScore(a.g, CapturePoints)
             IN  [a EXCEPT
                    !.g = IF alive = {} THEN StartVictorySequence(g1, t) ELSE g1,
                    !.alive = alive,
                    !.hasCaughtAnyCows = TRUE,
                    !.captured = a.captured \cup {i},
                    !.victories = a.victories + (IF alive = {} THEN 1 ELSE 0)]
        ELSE [a EXCEPT !.cowsInBeam = a.cowsInBeam + 1]

RECURSIVE AbductionLoop(_, _, _, _)
AbductionLoop(a, i, ufoPosition, t) ==
    IF i > Len(a.objs) THEN a
    ELSE AbductionLoop(AbductionStep(a, i, ufoPosition, t), i + 1, ufoPosition, t)

\* The elements of seq at the indices in keep, in order
Keep(seq, keep) ==
    LET F[i \in 0..Len(seq)] ==
            IF i = 0 THEN << >>
            ELSE IF i \in keep THEN Append(F[i - 1], seq[i]) ELSE F[i - 1]
    IN  F[Len(seq)]

\* Game.checkCowAbduction after the forEach, a being what the loop left:
\* the cooldown after a capture that leaves no cow in the beam
AbductionResult(a, t) ==
    LET complete == a.hasCaughtAnyCows /\ a.cowsInBeam = 0 /\ a.g.ufo.isBeamActive
        g1 == [a.g EXCEPT !.cows = Keep(a.objs, a.alive)]
    IN  [g |-> IF complete
               THEN [g1 EXCEPT !.ufo = StartCooldownAfterCapture(g1.ufo, t)]
               ELSE g1,
         started |-> a.started, captured |-> a.captured,
         victories |-> a.victories, captureComplete |-> complete,
         midLift |-> a.cowsInBeam]

\* Game.checkCowAbduction: the game after the call, with what happened in it
\* (started: indices of the cows whose abduction began, captured: indices of
\* the cows collected, victories: calls of startVictorySequence,
\* captureComplete: startCooldownAfterCapture was called, midLift: cows
\* still being lifted)
CheckCowAbduction(g, t) ==
    AbductionResult(
        AbductionLoop([g |-> g, objs |-> g.cows, alive |-> 1..Len(g.cows),
                       cowsInBeam |-> 0, hasCaughtAnyCows |-> FALSE,
                       started |-> {}, captured |-> {}, victories |-> 0],
                      1, g.ufo.pos, t),
        t)

\* Game.triggerCowFleeFromBeam
TriggerCowFleeFromBeam(g) ==
    LET beamPos == g.ufo.lastBeamGroundPosition
    IN  IF beamPos = Null THEN g
        ELSE [g EXCEPT !.cows =
                [i \in 1..Len(g.cows) |->
                    LET cow == g.cows[i]
                        dist == Length2(cow.pos.x - beamPos[1].x,
                                        cow.pos.z - beamPos[1].z)
                    IN  IF dist < FleeRadius /\ ~cow.isBeingAbducted
                        THEN FleeFrom(cow, beamPos[1]) ELSE cow]]

\* A variant of the drop step of Game.animate that drops no cow
DropCowsNever(g) == g

\* Game.animate, the step that drops the cows of an inactive beam
DropCows(g) ==
    IF g.ufo.isBeamActive THEN g
    ELSE [g EXCEPT !.cows =
            [i \in 1..Len(g.cows) |->
                IF g.cows[i].isBeingAbducted THEN StopAbduction(g.cows[i])
                ELSE g.cows[i]]]

\* Game.animate, the body of the forEach that updates one cow
UpdateCow(cow, ufoPosition, heading) ==
    LET terrainHeight == HeightAt(cow.pos.x, cow.pos.z)
        cow1 == IF /\ ~cow.isBeingAbducted
                   /\ \/ cow.pos.y < terrainHeight
                      \/ (~cow.isFalling /\ cow.pos.y > terrainHeight)
                THEN CowSetPosition(cow, cow.pos.x, terrainHeight, cow.pos.z)
                ELSE cow
    IN  CowUpdate(cow1, ufoPosition, heading)

\* Game.animate outside the victory sequence is modelled stage by stage on
\* a record f: f.g is the game, f.t the reading of Date.now(), f.headings
\* the picks of Math.random() for the cows, and the other fields tell what
\* happened in the frame so far.
FrameStart(g, t, headings) ==
    [g |-> g, t |-> t, headings |-> headings,
     timedOut |-> FALSE, moved |-> FALSE, tooHigh |-> FALSE, dropped |-> {},
     started |-> {}, captured |-> {}, victories |-> 0,
     captureComplete |-> FALSE, midLift |-> 0, fled |-> FALSE]

\* this.ufo.checkBeamTimeout()
TimeoutStage(f) ==
    [f EXCEPT !.g.ufo = CheckBeamTimeout(@, f.t),
              !.timedOut = /\ f.g.ufo.isBeamActive
                           /\ ~CheckBeamTimeout(f.g.ufo, f.t).isBeamActive]

\* A variant of that step in which a rejected move still turns the UFO
MoveResultTurning(f, chk) ==
    [f EXCEPT !.g = IF chk.hit
                    THEN [chk.g EXCEPT !.ufo.rotY =
                             ControlsUpdate(chk.g.ufo, chk.g.keys).rotY]
                    ELSE [chk.g EXCEPT !.ufo = ControlsUpdate(@, chk.g.keys)],
              !.moved = ~chk.hit]

\* controls.update() unless checkCollision reports a hit (chk)
MoveResult(f, chk) ==
    [f EXCEPT !.g = IF chk.hit THEN chk.g
                    ELSE [chk.g EXCEPT !.ufo = ControlsUpdate(@, chk.g.keys)],
              !.moved = ~chk.hit]

\* controls.getNextPosition(), checkCollision and controls.update()
MoveStage(f) ==
    MoveResult(f, CheckCollisionUfo(f.g, GetNextPosition(f.g.ufo, f.g.keys),
                                    UfoRadius, f.t))

\* this.ufo.updateReticle()
ReticleStage(f) == [f EXCEPT !.g.ufo = UpdateReticle(@, f.t)]

\* the beam is switched off above the altitude limit
AltitudeStage(f) ==
    IF Altitude(f.g.ufo) > MaxBeamAltitude /\ f.g.ufo.isBeamActive
    THEN [f EXCEPT !.g.ufo = ToggleBeam(@, FALSE, f.t), !.tooHigh = TRUE]
    ELSE f

\* the cows of an inactive beam are dropped
DropStage(f) ==
    [f EXCEPT !.g = DropCows(@),
              !.dropped = IF f.g.ufo.isBeamActive THEN {}
                          ELSE {i \in 1..Len(f.g.cows) : f.g.cows[i].isBeingAbducted}]

\* the cows are put on the terrain and updated
CowStage(f) ==
    [f EXCEPT !.g.cows =
        [i \in 1..Len(@) |-> UpdateCow(@[i], f.g.ufo.pos, f.headings[i])]]

\* what checkCowAbduction did (abd) is taken over
CaptureResult(f, abd) ==
    [f EXCEPT !.g = abd.g, !.started = abd.started, !.captured = abd.captured,
              !.victories = abd.victories,
              !.captureComplete = abd.captureComplete, !.midLift = abd.midLift]

\* checkCowAbduction() if the beam is active
CaptureStage(f) ==
    IF f.g.ufo.isBeamActive THEN CaptureResult(f, CheckCowAbduction(f.g, f.t))
    ELSE f

\* the cows flee when the beam has just come on
FleeStage(f) ==
    LET beamActive == f.g.ufo.isBeamActive
        fled == beamActive /\ ~f.g.lastBeamActive
    IN  [f EXCEPT !.g = [(IF fled THEN TriggerCowFleeFromBeam(f.g) ELSE f.g)
                            EXCEPT !.lastBeamActive = beamActive],
                  !.fled = fled]

\* Game.animate outside the victory sequence: the frame record at its end
Simulate(g, t, headings) ==
    FleeStage(CaptureStage(CowStage(DropStage(AltitudeStage(ReticleStage(
        MoveStage(TimeoutStage(FrameStart(g, t, headings)))))))))

-----------------------------------------------------------------------------
(* The state machine *)

\* Number of cows per level (Game.spawnCows spawns 12)
NumCows == 2
\* New headings picked by Math.random() < 0.02 in one run
MaxWanders == 1
\* Presses of the trigger counted while the cooldown flag is set
MaxPresses == 2

\* The keys of the keyboard that the model presses
ModelledKeys == {"space", "keyz", "keyx", "keyw", "digit9"}

\* The keys whose state Controls reads from Controls.keys (the entries of
\* the other keys are written and never read)
MovementKeys == {"arrowup", "arrowdown", "arrowleft", "arrowright",
                 "keyw", "keys", "keya", "keyd", "keyz", "keyx"}

\* Heights of the UFO at the start: the constructor's 10, and the heights
\* reached from it by 53 descents and by 23 ascents of 0.3
UfoStarts == {-5900, 10000, 16900}

\* The chase of a herd: the UFO flies low (52 descents from 10) along the
\* line x = ChaseLane (one step of 0.5 to the side of the origin), as far
\* as ChaseReach
ChaseLevel == {-5600}
ChaseLane == 500
ChaseReach == 1000

\* The heights at which the UFO is flown above the origin: those of the
\* start, and one ascent above the highest of them (25.2 above the ground)
FlightLevels == UfoStarts \cup {ResetHeight, 17200}

\* The positions at which the UFO is flown
InAirspace(p) ==
    \/ p.x = 0 /\ p.z = 0 /\ p.y \in FlightLevels
    \/ p.x = ChaseLane /\ p.y \in ChaseLevel /\ p.z >= 0 /\ p.z <= ChaseReach

\* The (x, z) that Math.random() picks for a new cow
SpawnPoints == { [x |-> 0, z |-> 1500], [x |-> 0, z |-> 30000] }

\* The picks for the cows of one level (in the order of their z)
SpawnChoices ==
    {s \in [1..NumCows -> SpawnPoints] :
        \A i \in 1..(NumCows - 1) : s[i].z <= s[i + 1].z}

\* The picks for the herd that is chased: the last cow stands just outside
\* the beam, the others inside
ChasedHerd ==
    [i \in 1..NumCows |->
        [x |-> ChaseLane, z |-> IF i < NumCows THEN 1500 ELSE 2000]]

\* The fields of Game (with its UFO and Controls) as one record
G == [ufo |-> ufo, cows |-> cows, keys |-> keys, score |-> score,
      level |-> level, colliders |-> colliders,
      lastColliderUpdate |-> lastColliderUpdate,
      lastBeamActive |-> lastBeamActive,
      isVictorySequence |-> isVictorySequence,
      victoryStartTime |-> victoryStartTime]

\* The variables take the fields of the game g
Becomes(g) ==
    /\ ufo' = g.ufo
    /\ cows' = g.cows
    /\ keys' = g.keys
    /\ score' = g.score
    /\ level' = g.level
    /\ colliders' = g.colliders
    /\ lastColliderUpdate' = g.lastColliderUpdate
    /\ lastBeamActive' = g.lastBeamActive
    /\ isVictorySequence' = g.isVictorySequence
    /\ victoryStartTime' = g.victoryStartTime

\* The game after new Game() and Game.initialize(), before the first frame
NewGame(y0, spawn) ==
    [SpawnCows([ufo |-> NewUfo(y0), cows |-> << >>, keys |-> {}, score |-> 0,
                level |-> 1, colliders |-> << >>, lastColliderUpdate |-> 0,
                lastBeamActive |-> FALSE, isVictorySequence |-> FALSE,
                victoryStartTime |-> 0], spawn)
        EXCEPT !.colliders = TypedMeshColliders]

\* What the model remembers of the run besides the program's state:
\*   framed         the frame of the current clock reading has run
\*   wanders        new headings picked so far
\*   captured       cows collected so far
\*   victoryStarts  calls of startVictorySequence so far
\*   released       the trigger was released (keyup) since the beam last went off
\*   lastDeact      how the beam last went off
\*   activatedAt    the clock reading at which the beam last came on
\*   caught         a cow's abduction began since the beam last came on
\*   presses        presses of the trigger made while the cooldown flag is set
\*   updates        calls of update made on the Cow object driven on its own
\*   call           the last call made on that Cow object, if it was an update
\*   check          the last call of checkCollision made on its own, and
\*                  what it returned
\*   heights        for each input of getHeightAt called on its own, the
\*                  first value returned and the clock reading then
\*   lastHeight     the last call of getHeightAt made on its own
\*   ticks          the frames run in the landing of dropped cows, counted
\*                  round a short cycle
NoCall == [op |-> "none", dist |-> 0]

NoCheck == [op |-> "none", pos |-> Vec(0, 0, 0), hit |-> FALSE]

\* The (x, z) at which getHeightAt is called on its own: the origin, a point
\* the fleeing cows cross, and the point in front of the farmhouse
HeightInputs ==
    {[x |-> 0, z |-> 0], [x |-> 0, z |-> 2100], [x |-> 20000, z |-> 17000]}

NoHeightCall == [op |-> "none", at |-> [x |-> 0, z |-> 0], value |-> 0, t |-> 0]

NoHistory ==
    [framed |-> FALSE, wanders |-> 0, captured |-> 0, victoryStarts |-> 0,
     released |-> TRUE, lastDeact |-> "none", activatedAt |-> 0,
     caught |-> FALSE, presses |-> 0, updates |-> 0, call |-> NoCall,
     check |-> NoCheck, heights |-> [q \in HeightInputs |-> Null],
     lastHeight |-> NoHeightCall, ticks |-> 0]

\* The state before the first frame of the game g
Start(g) ==
    /\ now = StartTime
    /\ ufo = g.ufo
    /\ cows = g.cows
    /\ keys = g.keys
    /\ score = g.score
    /\ level = g.level
    /\ colliders = g.colliders
    /\ lastColliderUpdate = g.lastColliderUpdate
    /\ lastBeamActive = g.lastBeamActive
    /\ isVictorySequence = g.isVictorySequence
    /\ victoryStartTime = g.victoryStartTime
    /\ hist = NoHistory

\* At the high start the herd is spread over the near and the far spawn point
Init ==
    \E y0 \in UfoStarts, spawn \in SpawnChoices :
        /\ y0 > ResetHeight => spawn[1].z # spawn[NumCows].z
        /\ Start(NewGame(y0, spawn))

\* Time passes between two events; the browser runs the animation frame
\* callback once per display refresh, so at most once per clock reading
AdvanceClock ==
    \E t \in ClockReadings :
        /\ t > now
        /\ now' = t
        /\ hist' = [hist EXCEPT !.framed = FALSE]
        /\ UNCHANGED <<ufo, cows, keys, score, level, colliders,
                       lastColliderUpdate, lastBeamActive, isVictorySequence,
                       victoryStartTime>>

\* The keydown listeners of Controls.setupEventListeners and of the Game
\* constructor (a key held down repeats its keydown)
KeyDownGame(g, k, t) ==
    IF k = "digit9"
    THEN IF g.isVictorySequence THEN g ELSE StartVictorySequence(g, t)
    ELSE [g EXCEPT !.keys = @ \cup ({k} \cap MovementKeys),
                   !.ufo = IF k = "space" THEN ToggleBeam(@, TRUE, t) ELSE @]

\* A movement key is pressed where the flight it commands stays in the
\* airspace; the victory shortcut is pressed before its deadline
KeyDown ==
    \E k \in ModelledKeys :
        /\ k \in MovementKeys =>
              InAirspace(GetNextPosition(ufo, keys \cup {k}))
        /\ k = "digit9" => now <= StartTime + ShortcutDeadline
        /\ \E g \in {KeyDownGame(G, k, now)} :
             /\ Becomes(g)
             /\ hist' = [hist EXCEPT
                   !.victoryStarts =
                       IF g.isVictorySequence /\ ~isVictorySequence
                       THEN @ + 1 ELSE @,
                   !.activatedAt =
                       IF g.ufo.isBeamActive /\ ~ufo.isBeamActive THEN now ELSE @,
                   !.caught =
                       IF g.ufo.isBeamActive /\ ~ufo.isBeamActive THEN FALSE ELSE @,
                   !.presses =
                       IF ~g.ufo.isBeamOnCooldown THEN 0
                       ELSE IF k = "space" THEN Min(@ + 1, MaxPresses) ELSE @]
        /\ UNCHANGED now

\* The keyup listener of Controls.setupEventListeners
KeyUpGame(g, k, t) ==
    [g EXCEPT !.keys = @ \ {k},
              !.ufo = IF k = "space" THEN ToggleBeam(@, FALSE, t) ELSE @]

KeyUp ==
    \E k \in ModelledKeys :
        /\ \E g \in {KeyUpGame(G, k, now)} :
             /\ Becomes(g)
             /\ hist' = [hist EXCEPT
                   !.released = IF k = "space" THEN TRUE ELSE @,
                   !.lastDeact = IF k = "space" /\ ufo.isBeamActive
                                 THEN "manual" ELSE @,
                   !.presses = IF ~g.ufo.isBeamOnCooldown THEN 0 ELSE @]
        /\ UNCHANGED now

\* The picks of Math.random() for the cows in one frame: at most `budget`
\* new headings
HeadingChoices(n, budget) ==
    {h \in [1..n -> {Null} \cup {Some(d) : d \in WanderHeadings}] :
        Cardinality({i \in 1..n : h[i] # Null}) <= budget}

\* Game.animate outside the victory sequence
SimFrame ==
    /\ ~isVictorySequence
    /\ ~hist.framed
    /\ \E h \in HeadingChoices(Len(cows),
                   IF now <= StartTime + WanderDeadline
                   THEN MaxWanders - hist.wanders ELSE 0) :
         \E r \in {Simulate(G, now, h)} :
             /\ InAirspace(r.g.ufo.pos)
             /\ Becomes(r.g)
             /\ hist' = [hist EXCEPT
                   !.framed = TRUE,
                   !.wanders = @ + Cardinality({i \in 1..Len(cows) : h[i] # Null}),
                   !.captured = @ + Cardinality(r.captured),
                   !.victoryStarts = @ + r.victories,
                   !.released = IF r.timedOut \/ r.tooHigh \/ r.captureComplete
                                THEN FALSE ELSE @,
                   !.lastDeact = IF r.timedOut THEN "timeout"
                                 ELSE IF r.tooHigh THEN "altitude"
                                 ELSE IF r.captureComplete THEN "capture"
                                 ELSE @,
                   !.caught = IF r.started # {} THEN TRUE ELSE @,
                   !.presses = IF r.timedOut \/ r.captureComplete
                                  \/ ~r.g.ufo.isBeamOnCooldown
                               THEN 0 ELSE @]
    /\ UNCHANGED now

\* Game.animate during the victory sequence
VictoryFrame ==
    /\ isVictorySequence
    /\ ~hist.framed
    /\ \E spawn \in IF now - victoryStartTime >= VictoryEnd
                    THEN SpawnChoices ELSE {<< >>} :
         Becomes(UpdateVictorySequence(G, now, spawn))
    /\ hist' = [hist EXCEPT !.framed = TRUE]
    /\ UNCHANGED now

Next == AdvanceClock \/ KeyDown \/ KeyUp \/ SimFrame \/ VictoryFrame

Spec == Init /\ [][Next]_vars

\* The game in which the UFO chases a herd, flying low
InitChase ==
    \E y0 \in ChaseLevel :
        \E g \in {NewGame(y0, ChasedHerd)} :
            Start([g EXCEPT !.ufo = UfoSetPosition(@, ChaseLane, y0, 0)])

SpecChase == InitChase /\ [][Next]_vars

-----------------------------------------------------------------------------
(* The first Cow object driven on its own *)

\* Calls of Cow.update in one run
MaxUpdates == 3

\* Where the UFO is put: above the origin, 6 further along z, and 3 to the
\* side of that and half a unit back
UfoPlaces == {Vec(0, ResetHeight, 0), Vec(0, ResetHeight, 6000),
              Vec(3000, ResetHeight, 5500)}

\* Where setPosition puts a cow: on the terrain at its spawn point, and at
\* the height 0.4 and above it
CowPlaces == {Vec(0, HeightAt(0, 1500), 1500), Vec(0, BaseHeight, 1500),
              Vec(0, BaseHeight + 500, 1500)}

\* The horizontal distance of the cow c from the point p
HorizontalDistance(c, p) == Length2(p.x - c.pos.x, p.z - c.pos.z)

\* The herd stands at the near spawn point, the UFO above the origin
InitCow ==
    Start(NewGame(ResetHeight, [i \in 1..NumCows |-> [x |-> 0, z |-> 1500]]))

\* cow.startAbduction(target) with the target checkCowAbduction passes
CallStartAbduction ==
    \E i \in {1} :
        /\ cows' = [cows EXCEPT ![i] =
              StartAbduction(@, Vec(ufo.pos.x, ufo.pos.y - AbductionTargetDrop,
                                    ufo.pos.z))]
        /\ hist' = [hist EXCEPT !.call = NoCall]
        /\ UNCHANGED <<now, ufo, keys, score, level, colliders,
                       lastColliderUpdate, lastBeamActive, isVictorySequence,
                       victoryStartTime>>

\* cow.stopAbduction()
CallStopAbduction ==
    \E i \in {1} :
        /\ cows' = [cows EXCEPT ![i] = StopAbduction(@)]
        /\ hist' = [hist EXCEPT !.call = NoCall]
        /\ UNCHANGED <<now, ufo, keys, score, level, colliders,
                       lastColliderUpdate, lastBeamActive, isVictorySequence,
                       victoryStartTime>>

\* cow.setPosition(x, y, z)
CallSetPosition ==
    \E i \in {1}, p \in CowPlaces :
        /\ cows' = [cows EXCEPT ![i] = CowSetPosition(@, p.x, p.y, p.z)]
        /\ hist' = [hist EXCEPT !.call = NoCall]
        /\ UNCHANGED <<now, ufo, keys, score, level, colliders,
                       lastColliderUpdate, lastBeamActive, isVictorySequence,
                       victoryStartTime>>

\* cow.update(terrain, ufoPosition), Math.random() picking no new heading;
\* the history keeps the horizontal distance to the UFO before the last call
\* if that call was an update
CallUpdate ==
    \E i \in {1} :
        /\ hist.updates < MaxUpdates
        /\ cows' = [cows EXCEPT ![i] = CowUpdate(@, ufo.pos, Null)]
        /\ hist' = [hist EXCEPT
              !.updates = @ + 1,
              !.call = [op |-> "update",
                        dist |-> HorizontalDistance(cows[i], ufo.pos)]]
        /\ UNCHANGED <<now, ufo, keys, score, level, colliders,
                       lastColliderUpdate, lastBeamActive, isVictorySequence,
                       victoryStartTime>>

\* ufo.setPosition(x, y, z)
CallUfoSetPosition ==
    \E p \in UfoPlaces :
        /\ ufo' = UfoSetPosition(ufo, p.x, p.y, p.z)
        /\ hist' = [hist EXCEPT !.call = NoCall]
        /\ UNCHANGED <<now, cows, keys, score, level, colliders,
                       lastColliderUpdate, lastBeamActive, isVictorySequence,
                       victoryStartTime>>

NextCow ==
    \/ CallStartAbduction
    \/ CallStopAbduction
    \/ CallSetPosition
    \/ CallUpdate
    \/ CallUfoSetPosition

SpecCow == InitCow /\ [][NextCow]_vars

-----------------------------------------------------------------------------
(* The first Cow object in a long fall *)

\* Calls of Cow.update in one run of the fall
MaxFallUpdates == 36

\* cow.update(terrain, ufoPosition) of a falling cow, in a run long enough
\* for the fall to reach the terminal velocity
CallUpdateInFall ==
    \E i \in {1} :
        /\ cows[i].isFalling
        /\ hist.updates < MaxFallUpdates
        /\ cows' = [cows EXCEPT ![i] = CowUpdate(@, ufo.pos, Null)]
        /\ hist' = [hist EXCEPT
              !.updates = @ + 1,
              !.call = [op |-> "update",
                        dist |-> HorizontalDistance(cows[i], ufo.pos)]]
        /\ UNCHANGED <<now, ufo, keys, score, level, colliders,
                       lastColliderUpdate, lastBeamActive, isVictorySequence,
                       victoryStartTime>>

\* The cow is taken from the ground, dropped, moved and updated while it
\* falls
NextFall ==
    \/ ~cows[1].isFalling /\ ~cows[1].isBeingAbducted /\ CallStartAbduction
    \/ cows[1].isBeingAbducted /\ CallStopAbduction
    \/ CallSetPosition
    \/ CallUpdateInFall

SpecFall == InitCow /\ [][NextFall]_vars

-----------------------------------------------------------------------------
(* The UFO flown against the ceiling, the floor, a tree and the farmhouse *)

\* Where the UFO is when the run starts: just below and just above the
\* altitude 50 over the origin, just above the floor there, in front of the
\* tree, and in front of the farmhouse at its height and above its roof
CollideSpots ==
    {Vec(0, 41800, 0), Vec(0, 42100, 0), Vec(0, -5900, 0), Vec(0, -5600, 1500),
     Vec(20000, 0, 16500), Vec(20000, 7300, 16500)}

\* The movement keys held through the run
HeldKeys == {{}, {"keyw"}, {"keys"}, {"keyz"}, {"keyx"},
             {"keyx", "keya"}, {"keyz", "keyd"}}

\* Positions proposed to checkCollision besides the one the controls propose
CollideProposals ==
    {Vec(20000, 0, 17000), Vec(20000, 7300, 17000), Vec(20000, 7200, 17000),
     Vec(0, -6200, 0), Vec(0, 42400, 0), Vec(0, 42100, -500),
     Vec(0, -5600, 2000), Vec(0, -5600, 9500)}

\* The herd stands at the far spawn point; the colliders are those of
\* Game.initialize or those of a refresh at the start time
InitCollide ==
    \E spot \in CollideSpots, ks \in HeldKeys, refreshed \in BOOLEAN :
        \E g \in {NewGame(ResetHeight, [i \in 1..NumCows |-> [x |-> 0, z |-> 30000]])} :
            \E g1 \in {IF refreshed THEN UpdateColliders(g, StartTime) ELSE g} :
                Start([g1 EXCEPT
                          !.ufo = UfoSetPosition(@, spot.x, spot.y, spot.z),
                          !.keys = ks])

\* Game.animate outside the victory sequence, Math.random() picking no new
\* heading
CollideFrame ==
    /\ ~isVictorySequence
    /\ ~hist.framed
    /\ Becomes(Simulate(G, now, [i \in 1..Len(cows) |-> Null]).g)
    /\ hist' = [hist EXCEPT !.framed = TRUE]
    /\ UNCHANGED now

\* this.checkCollision(this.ufo.getMesh(), p, 2)
CallCheckCollision ==
    \E p \in CollideProposals \cup {GetNextPosition(ufo, keys)} :
        \E r \in {CheckCollisionUfo(G, p, UfoRadius, now)} :
            /\ Becomes(r.g)
            /\ hist' = [hist EXCEPT
                  !.check = [op |-> "check", pos |-> p, hit |-> r.hit]]
            /\ UNCHANGED now

NextCollide == AdvanceClock \/ CollideFrame \/ CallCheckCollision

SpecCollide == InitCollide /\ [][NextCollide]_vars

-----------------------------------------------------------------------------
(* The terrain asked for heights while the game runs *)

\* this.terrain.getHeightAt(x, z)
CallGetHeightAt ==
    \E q \in HeightInputs :
        \E h \in {HeightAt(q.x, q.z)} :
            /\ hist' = [hist EXCEPT
                  !.heights[q] = IF @ = Null
                                 THEN Some([value |-> h, t |-> now]) ELSE @,
                  !.lastHeight = [op |-> "call", at |-> q, value |-> h,
                                  t |-> now]]
            /\ UNCHANGED <<now, ufo, cows, keys, score, level, colliders,
                           lastColliderUpdate, lastBeamActive,
                           isVictorySequence, victoryStartTime>>

\* The game runs its frames with no key pressed
NextTerrain == AdvanceClock \/ CollideFrame \/ CallGetHeightAt

SpecTerrain == Init /\ [][NextTerrain]_vars

-----------------------------------------------------------------------------
(* Cows dropped from the beam, over the valley and over the hill *)

\* The frames are counted modulo TickCycle
TickCycle == 2

\* The altitude at which the UFO hovers over the herd
HoverAltitude == 20000

\* Where the herd is: at the near spawn point in the valley, and on the hill
LandingPlaces == {[x |-> 0, z |-> 1500], [x |-> HillLane, z |-> 40000]}

\* How far above the ground a cow has been lifted when the beam goes off
LiftHeights == {0, 1000, 3000}

\* The trigger has just been released over a herd being lifted: the beam is
\* off, every cow is still being abducted
InitLanding ==
    \E place \in LandingPlaces, lift \in [1..NumCows -> LiftHeights] :
        \E g \in {NewGame(ResetHeight, [i \in 1..NumCows |-> place])} :
            \E top \in {HeightAt(place.x, place.z) + HoverAltitude} :
                Start([g EXCEPT
                    !.ufo = UfoSetPosition(@, place.x, top, place.z),
                    !.cows = [i \in 1..NumCows |->
                        [StartAbduction(g.cows[i],
                             Vec(place.x, top - AbductionTargetDrop, place.z))
                            EXCEPT !.pos.y = @ + lift[i]]]])

\* Game.animate outside the victory sequence, with no key pressed and the
\* beam off (nothing in the frame depends on the clock reading then),
\* Math.random() picking no new heading
LandingFrame ==
    /\ ~isVictorySequence
    /\ Becomes(Simulate(G, now, [i \in 1..Len(cows) |-> Null]).g)
    /\ hist' = [hist EXCEPT !.ticks = (@ + 1) % TickCycle]
    /\ UNCHANGED now

NextLanding == LandingFrame

\* A step that counts a frame
FrameCounted == hist' = [hist EXCEPT !.ticks = (@ + 1) % TickCycle]

\* animate asks for the next animation frame each time it runs
\* (requestAnimationFrame at Game.ts:340), so frames keep coming: the
\* fairness is stated on the count of the frames, which every frame and no
\* other step advances
SpecLanding == InitLanding /\ [][NextLanding]_vars /\ WF_hist(FrameCounted)

-----------------------------------------------------------------------------
(* A herd grazing beside the fence, the UFO hovering behind it *)

\* The x at which the herd stands on the line z = 0, where the fence stands
\* at x = 30: 2.1 and 1.6 before the fence, and 3 beyond it
GrazeStarts == {27900, 28400, 33000}

\* The x over which the UFO hovers
GrazeHover == 20000

\* The heights at which it hovers: 3 and 18 above the ground
GrazeLevels == {-5000, 10000}

InitGraze ==
    \E x0 \in GrazeStarts, y0 \in GrazeLevels :
        \E g \in {NewGame(y0, [i \in 1..NumCows |-> [x |-> x0, z |-> 0]])} :
            Start([g EXCEPT !.ufo = UfoSetPosition(@, GrazeHover, y0, 0)])

NextGraze == AdvanceClock \/ CollideFrame

SpecGraze == InitGraze /\ [][NextGraze]_vars

-----------------------------------------------------------------------------
(* Properties of the beam *)

\* A step that is a simulation tick: a frame run outside the victory sequence
SimStep == ~isVictorySequence /\ ~hist.framed /\ hist'.framed

\* A step whose effect on the game is that of releasing the trigger
ReleaseStep == G' = KeyUpGame(G, "space", now)

\* A step whose effect on the game is that of pressing the trigger
PressStep == G' = KeyDownGame(G, "space", now)

\* C1: in every reachable state the beam's isBeamActive and isBeamOnCooldown
\* flags are not both true
C1_NeverActiveAndOnCooldown == ~(ufo.isBeamActive /\ ufo.isBeamOnCooldown)

\* The beam is on cooldown after a capture, and the trigger was pressed since
C1_Witness ==
    /\ ufo.isBeamOnCooldown
    /\ ~ufo.isBeamActive
    /\ hist.lastDeact = "capture"
    /\ hist.presses > 0

\* C2: a simulation tick that finds the beam active, with no cow caught since
\* its activation at hist.activatedAt, switches it off and starts the
\* cooldown if the clock reads activatedAt + 1000 or more; if the clock reads
\* less, the beam stays on unless the tick switches it off for the altitude
\* or for a completed capture
C2_TimeoutAfterOneSecond ==
    [][(SimStep /\ ufo.isBeamActive /\ ~hist.caught) =>
          IF now >= hist.activatedAt + 1000
          THEN /\ ~ufo'.isBeamActive
               /\ ufo'.isBeamOnCooldown
               /\ hist'.lastDeact = "timeout"
          ELSE ufo'.isBeamActive \/ hist'.lastDeact \in {"altitude", "capture"}]_vars

\* The beam timed out in the tick exactly 1000 ms after its activation
C2_Witness ==
    /\ hist.framed
    /\ hist.lastDeact = "timeout"
    /\ ~ufo.isBeamActive
    /\ ufo.isBeamOnCooldown
    /\ now = hist.activatedAt + 1000

\* C3 (as amended): a tick that times the beam out or completes a capture
\* sets the cooldown end to the clock reading + 1000; whenever the cooldown
\* flag becomes set the end is the clock reading + 1000; while the clock
\* reads less than the end the flag stays set and the end stays; and the
\* flag is cleared by a simulation tick, by a release of the trigger and by
\* a press made with the trigger marked released, at the end time or later
C3_CooldownLastsOneSecond ==
    [][/\ (SimStep /\ ufo.isBeamActive /\ ~ufo'.isBeamActive
              /\ hist'.lastDeact \in {"timeout", "capture"}) =>
           (ufo'.isBeamOnCooldown
              /\ ufo'.beamCooldownEndTime = now + 1000)
       /\ (~ufo.isBeamOnCooldown /\ ufo'.isBeamOnCooldown) =>
           ufo'.beamCooldownEndTime = now + 1000
       /\ (ufo.isBeamOnCooldown /\ now' < ufo.beamCooldownEndTime) =>
           (ufo'.isBeamOnCooldown
              /\ ufo'.beamCooldownEndTime = ufo.beamCooldownEndTime)
       /\ (/\ ufo.isBeamOnCooldown
           /\ now >= ufo.beamCooldownEndTime
           /\ \/ SimStep
              \/ ReleaseStep
              \/ PressStep /\ ufo.spacebarWasReleased) =>
           ~ufo'.isBeamOnCooldown]_vars

\* The cooldown that began with a timeout has been cleared at its end time
C3_Witness ==
    /\ hist.lastDeact = "timeout"
    /\ ~ufo.isBeamOnCooldown
    /\ ~ufo.isBeamActive
    /\ now = hist.activatedAt + 2000

\* C3 as stated: every press of the trigger made at the end time of the
\* cooldown or later clears the cooldown flag
C3_AsStated ==
    [][(/\ ufo.isBeamOnCooldown
        /\ now >= ufo.beamCooldownEndTime
        /\ hist'.presses > hist.presses) => ~ufo'.isBeamOnCooldown]_vars

\* C4: while the cooldown flag is set and the clock reads less than the
\* cooldown end, no step (a press of the trigger in particular) leaves the
\* beam active
C4_NoActivationOnCooldown ==
    [][(ufo.isBeamOnCooldown /\ now' < ufo.beamCooldownEndTime) =>
          ~ufo'.isBeamActive]_vars

\* The trigger has been released and pressed again and again during a
\* cooldown that has not ended, and the beam is off
C4_Witness ==
    /\ ufo.isBeamOnCooldown
    /\ now < ufo.beamCooldownEndTime
    /\ hist.presses = MaxPresses
    /\ ufo.spacebarWasReleased
    /\ ~ufo.isBeamActive

\* C5 as stated: the beam comes on only if the trigger was released since
\* the beam last went off, or the beam last went off by a completed capture
C5_AsStated ==
    [][(~ufo.isBeamActive /\ ufo'.isBeamActive) =>
          (hist.released \/ hist.lastDeact = "capture")]_vars

\* C6 as stated: a simulation tick that finds the beam active and a cow
\* being abducted does not time the beam out
C6_AsStated ==
    [][(SimStep /\ ufo.isBeamActive
           /\ \E i \in 1..Len(cows) : cows[i].isBeingAbducted) =>
          ~(~ufo'.isBeamActive /\ hist'.lastDeact = "timeout")]_vars

-----------------------------------------------------------------------------
(* Properties of the capture *)

\* No new heading for any of n cows
NoPicks(n) == [i \in 1..n |-> Null]

\* A simulation tick can run in the current state
FrameDue == ~isVictorySequence /\ ~hist.framed

\* Game.animate up to the call of checkCowAbduction: the frame record at the
\* capture evaluation of the tick that runs in the current state
PreCapture ==
    CowStage(DropStage(AltitudeStage(ReticleStage(MoveStage(TimeoutStage(
        FrameStart(G, now, NoPicks(Len(cows)))))))))

\* The cows that the capture evaluation of the frame f finds lifted up to
\* the UFO: being abducted, less than 2 from the beam centre horizontally
\* and less than 2 below the UFO
Reached(f) ==
    {i \in 1..Len(f.g.cows) :
        /\ f.g.cows[i].isBeingAbducted
        /\ HorizontalDistance(f.g.cows[i], f.g.ufo.pos) < 2000
        /\ f.g.ufo.pos.y - f.g.cows[i].pos.y < 2000}

\* The cows that the capture evaluation of the frame f finds in the beam
\* and not being abducted
Entering(f) ==
    {i \in 1..Len(f.g.cows) :
        /\ ~f.g.cows[i].isBeingAbducted
        /\ HorizontalDistance(f.g.cows[i], f.g.ufo.pos) < 2000}

\* The positions of the cows of a sequence
Positions(cs) == [i \in 1..Len(cs) |-> cs[i].pos]

\* C7: the score is 10 times the number of cows captured so far; the score
\* changes only in a simulation tick, by 10 for each cow that leaves the
\* list; and the capture evaluation of a tick removes from the list exactly
\* the cows it finds lifted up to the UFO, adding 10 for each
C7_ScoreCountsCaptures ==
    /\ [](score = 10 * hist.captured)
    /\ [][score' # score =>
             /\ SimStep
             /\ score' = score + 10 * (Len(cows) - Len(cows'))
             /\ hist'.captured = hist.captured + (Len(cows) - Len(cows'))]_vars
    /\ [](FrameDue =>
            \A pre \in {PreCapture} :
                pre.g.ufo.isBeamActive =>
                    \A post \in {CaptureStage(pre)} :
                        /\ post.captured = Reached(pre)
                        /\ post.g.score =
                               pre.g.score + 10 * Cardinality(Reached(pre))
                        /\ Positions(post.g.cows) =
                               Positions(Keep(pre.g.cows,
                                   (1..Len(pre.g.cows)) \ Reached(pre))))

\* One cow of the herd has been captured, the other is still in the list
C7_Witness ==
    /\ score = 10
    /\ hist.captured = 1
    /\ Len(cows) = NumCows - 1
    /\ ~isVictorySequence

\* C8 (as amended): the victory sequence starts at the clock reading, either
\* in a simulation tick whose capture empties the list of cows or by the
\* victory shortcut pressed outside a sequence; and it has started once for
\* every level completed, and once more if a sequence is running
C8_VictoryOncePerLevel ==
    /\ [][(~isVictorySequence /\ isVictorySequence') =>
             /\ victoryStartTime' = now
             /\ hist'.victoryStarts = hist.victoryStarts + 1
             /\ \/ SimStep /\ cows' = << >> /\ hist'.captured > hist.captured
                \/ G' = KeyDownGame(G, "digit9", now)]_vars
    /\ [](hist.victoryStarts =
              level - 1 + (IF isVictorySequence THEN 1 ELSE 0))

\* The first level was completed by capturing its herd, its victory
\* sequence has run, and the herd of the second level is out
C8_Witness ==
    /\ level = 2
    /\ ~isVictorySequence
    /\ hist.victoryStarts = 1
    /\ hist.captured = NumCows
    /\ Len(cows) = NumCows

\* C8 as stated: the victory sequence starts only in a simulation tick whose
\* capture empties the list of cows
C8_AsStated ==
    [][(~isVictorySequence /\ isVictorySequence') =>
          (SimStep /\ cows' = << >> /\ hist'.captured > hist.captured)]_vars

\* C9 as stated: when the beam is active at the capture evaluation of a
\* tick, after the evaluation every cow that was in the beam and not being
\* abducted is being abducted with its target at the x and z of the UFO and
\* 2 below its y, and the beam's hasActiveCowInBeam flag is set
C9_AsStated ==
    FrameDue =>
        \A pre \in {PreCapture} :
            (pre.g.ufo.isBeamActive /\ Entering(pre) # {}) =>
                \A post \in {CaptureStage(pre)} :
                    /\ \A i \in Entering(pre) :
                          \E j \in 1..Len(post.g.cows) :
                              /\ post.g.cows[j].pos = pre.g.cows[i].pos
                              /\ post.g.cows[j].isBeingAbducted
                              /\ post.g.cows[j].abductionTarget =
                                     Some(Vec(pre.g.ufo.pos.x,
                                              pre.g.ufo.pos.y - 2000,
                                              pre.g.ufo.pos.z))
                    /\ post.g.ufo.hasActiveCowInBeam

-----------------------------------------------------------------------------
(* Properties of the Cow objects *)

\* What the fixed-point arithmetic may lose of a length
RoundingSlack == 4

\* C10: an update of a cow that is being abducted and is more than 3 from
\* the UFO horizontally puts it at the horizontal distance 2 from the UFO
\* (up to rounding), in the direction from the UFO in which it was
C10_SnapIntoBand ==
    [][(/\ hist'.updates = hist.updates + 1
        /\ cows[1].isBeingAbducted
        /\ HorizontalDistance(cows[1], ufo.pos) > 3000) =>
          /\ Abs(HorizontalDistance(cows'[1], ufo.pos) - 2000) <= RoundingSlack
          /\ (cows[1].pos.x - ufo.pos.x) * (cows'[1].pos.x - ufo.pos.x)
               + (cows[1].pos.z - ufo.pos.z) * (cows'[1].pos.z - ufo.pos.z) > 0
          /\ Abs((cows[1].pos.x - ufo.pos.x) * (cows'[1].pos.z - ufo.pos.z)
                   - (cows[1].pos.z - ufo.pos.z) * (cows'[1].pos.x - ufo.pos.x))
               <= RoundingSlack * HorizontalDistance(cows[1], ufo.pos)]_vars

\* The last call was an update of the cow being abducted, more than 3 from
\* a UFO that is neither at its x nor at its z
C10_Witness ==
    /\ hist.call.op = "update"
    /\ hist.call.dist > 3000
    /\ cows[1].isBeingAbducted
    /\ cows[1].pos.x # ufo.pos.x
    /\ cows[1].pos.z # ufo.pos.z
    /\ HorizontalDistance(cows[1], ufo.pos) <= 2000 + RoundingSlack

-----------------------------------------------------------------------------
(* Properties of the drop and of the fall *)

\* Game.animate up to the drop step: the frame record at the drop step of
\* the tick that runs in the current state
PreDrop ==
    AltitudeStage(ReticleStage(MoveStage(TimeoutStage(
        FrameStart(G, now, NoPicks(Len(cows)))))))

\* C11: when the beam is inactive at the drop step of a tick, the step
\* leaves every cow that was being abducted falling, not being abducted,
\* with no abduction target and fall velocity 0, where it was, and leaves
\* no cow being abducted for the updates that follow
C11_DroppedBeforeUpdate ==
    FrameDue =>
        \A pre \in {PreDrop} :
            ~pre.g.ufo.isBeamActive =>
                \A post \in {DropStage(pre)} :
                    /\ \A i \in 1..Len(pre.g.cows) :
                          pre.g.cows[i].isBeingAbducted =>
                              /\ post.g.cows[i].isFalling
                              /\ ~post.g.cows[i].isBeingAbducted
                              /\ post.g.cows[i].abductionTarget = Null
                              /\ post.g.cows[i].fallVelocity = 0
                              /\ post.g.cows[i].pos = pre.g.cows[i].pos
                    /\ \A i \in 1..Len(post.g.cows) :
                          ~post.g.cows[i].isBeingAbducted

\* A tick is due that finds the beam off at its drop step, after a timeout,
\* and a cow being abducted
C11_Witness ==
    /\ FrameDue
    /\ \E pre \in {PreDrop} :
          /\ ~pre.g.ufo.isBeamActive
          /\ pre.timedOut
          /\ \E i \in 1..Len(pre.g.cows) : pre.g.cows[i].isBeingAbducted

\* C12: a cow starts to fall with fall velocity 0; while it is falling its
\* fall velocity is never above 0 and never below -0.5; each update of a
\* falling cow lowers the fall velocity by 0.015, or to -0.5 if that would
\* pass -0.5, so it strictly decreases while above -0.5 and stays at -0.5
\* once there
C12_FallVelocity ==
    [][\A i \in 1..Len(cows) :
          /\ (~cows[i].isFalling /\ cows'[i].isFalling) =>
                 cows'[i].fallVelocity = 0
          /\ cows'[i].isFalling =>
                 /\ cows'[i].fallVelocity <= 0
                 /\ cows'[i].fallVelocity >= -500
          /\ (cows[i].isFalling /\ hist'.updates = hist.updates + 1 /\ i = 1) =>
                 /\ cows'[i].isFalling
                 /\ cows'[i].fallVelocity =
                        IF cows[i].fallVelocity - 15 >= -500
                        THEN cows[i].fallVelocity - 15 ELSE -500
                 /\ cows[i].fallVelocity > -500 =>
                        cows'[i].fallVelocity < cows[i].fallVelocity
                 /\ cows[i].fallVelocity = -500 =>
                        cows'[i].fallVelocity = -500
                 /\ cows'[i].pos.y = cows[i].pos.y + cows'[i].fallVelocity
      ]_vars

\* The cow has been falling at -0.5 through the last update and at least
\* one before it
C12_Witness ==
    /\ cows[1].isFalling
    /\ cows[1].fallVelocity = -500
    /\ hist.call.op = "update"
    /\ hist.updates >= 35

-----------------------------------------------------------------------------
(* Properties of the collision check *)

\* C13: checkCollision for the UFO (radius 2) rejects a proposed position
\* exactly when the UFO's altitude is at least 50 and the proposed altitude
\* is higher, or the proposed y is less than the terrain height + 2, or a
\* collider of the list it consults, less than 10 away horizontally, is
\* horizontally nearer than 2 + its radius and vertically nearer than its
\* collision height (tree 6, building 8, otherwise 2); in particular a
\* position 3 from a building and vertically nearer than 8 is rejected
C13_RejectsExactly ==
    \A p \in CollideProposals \cup {GetNextPosition(ufo, keys)} :
        \A cs \in {IF now - lastColliderUpdate > 1000
                   THEN GetColliders ELSE colliders} :
            /\ CheckCollisionUfo(G, p, 2000, now).hit <=>
                  \/ /\ ufo.pos.y - HeightAt(ufo.pos.x, ufo.pos.z) >= 50000
                     /\ p.y - HeightAt(p.x, p.z) >
                            ufo.pos.y - HeightAt(ufo.pos.x, ufo.pos.z)
                  \/ p.y < HeightAt(p.x, p.z) + 2000
                  \/ \E k \in 1..Len(cs) :
                        /\ Length2(p.x - cs[k].pos.x, p.z - cs[k].pos.z) < 10000
                        /\ Length2(p.x - cs[k].pos.x, p.z - cs[k].pos.z) <
                               2000 + (IF cs[k].collisionRadius = 0 THEN 1000
                                       ELSE cs[k].collisionRadius)
                        /\ Abs(p.y - cs[k].pos.y) <
                               (IF cs[k].type = "tree" THEN 6000
                                ELSE IF cs[k].type = "building" THEN 8000
                                ELSE 2000)
            /\ (\E k \in 1..Len(cs) :
                    /\ cs[k].type = "building"
                    /\ Length2(p.x - cs[k].pos.x, p.z - cs[k].pos.z) = 3000
                    /\ Abs(p.y - cs[k].pos.y) < 8000)
                  => CheckCollisionUfo(G, p, 2000, now).hit

\* checkCollision has rejected the position 3 in front of the farmhouse, at
\* its height
C13_Witness ==
    /\ hist.check.op = "check"
    /\ hist.check.hit
    /\ hist.check.pos = Vec(20000, 0, 17000)
    /\ ufo.pos.y - HeightAt(ufo.pos.x, ufo.pos.z) < 50000

\* C14: in a tick in which the UFO's altitude (y minus the terrain height
\* at its x/z) is at least 50 and the position the controls propose has a
\* greater altitude, the UFO is not moved and its altitude after the tick is
\* not greater than before
C14_CeilingHolds ==
    [][(/\ ~isVictorySequence
        /\ ~hist.framed
        /\ hist'.framed
        /\ ufo.pos.y - HeightAt(ufo.pos.x, ufo.pos.z) >= 50000
        /\ \E p \in {GetNextPosition(ufo, keys)} :
              p.y - HeightAt(p.x, p.z) >
                  ufo.pos.y - HeightAt(ufo.pos.x, ufo.pos.z))
       => /\ ufo'.pos = ufo.pos
          /\ ufo'.pos.y - HeightAt(ufo'.pos.x, ufo'.pos.z) <=
                 ufo.pos.y - HeightAt(ufo.pos.x, ufo.pos.z)
      ]_vars

\* A tick has run with the UFO above the altitude 50 and the key held that
\* takes it backward over lower ground; the UFO is where it was
C14_Witness ==
    /\ hist.framed
    /\ keys = {"keys"}
    /\ ufo.pos = Vec(0, 42100, 0)
    /\ HeightAt(0, -500) < HeightAt(0, 0)

-----------------------------------------------------------------------------
(* Properties of the cows' motion states *)

\* C15: at the end of every simulation tick every cow that is neither being
\* abducted nor falling stands at the terrain height of its x and z
C15_AsStated ==
    (hist.framed /\ ~isVictorySequence) =>
        \A i \in 1..Len(cows) :
            (~cows[i].isBeingAbducted /\ ~cows[i].isFalling) =>
                cows[i].pos.y = HeightAt(cows[i].pos.x, cows[i].pos.z)

\* C16: a cow is never being abducted and falling at once, whatever calls
\* of startAbduction, stopAbduction, setPosition and update are made on it
C16_OneMotionState ==
    \A i \in 1..Len(cows) : ~(cows[i].isBeingAbducted /\ cows[i].isFalling)

\* A cow that fell below the terrain has been taken into the beam: it is
\* being abducted and no longer falling
C16_Witness ==
    /\ cows[1].isBeingAbducted
    /\ ~cows[1].isFalling
    /\ cows[1].pos.y < HeightAt(cows[1].pos.x, cows[1].pos.z)
    /\ hist.updates > 0

\* C17: every collider of the list the collision check consults has the
\* collision radius of its type: 2 for a tree, 4 for a building, 0.5 for a
\* fence
C17_AsStated ==
    \A k \in 1..Len(colliders) :
        /\ colliders[k].type = "tree" => colliders[k].collisionRadius = 2000
        /\ colliders[k].type = "building" => colliders[k].collisionRadius = 4000
        /\ colliders[k].type = "fence" => colliders[k].collisionRadius = 500

-----------------------------------------------------------------------------
(* Properties of ignored activations and of the cooldown's expiry *)

\* The fields of the beam state: active, on cooldown, activation time,
\* cooldown end, caught-cow flag, trigger-released flag
BeamFields(u) ==
    <<u.isBeamActive, u.isBeamOnCooldown, u.beamActivationTime,
      u.beamCooldownEndTime, u.hasActiveCowInBeam, u.spacebarWasReleased>>

\* C18 as stated: toggleBeam(true) called while the trigger is not marked
\* released, or before the end of a cooldown, or above altitude 25, leaves
\* every field of the beam state unchanged
C18_AsStated ==
    (\/ ~ufo.spacebarWasReleased
     \/ ufo.isBeamOnCooldown /\ now < ufo.beamCooldownEndTime
     \/ ufo.pos.y - HeightAt(ufo.pos.x, ufo.pos.z) > 25000)
        => BeamFields(ToggleBeam(ufo, TRUE, now)) = BeamFields(ufo)

\* C18: toggleBeam(true) called while the trigger is not marked released, or
\* before the end of a cooldown, or above altitude 25, does not switch the
\* beam on and leaves the activation time, the cooldown end, the caught-cow
\* flag and the trigger-released flag unchanged; it leaves the cooldown flag
\* unchanged too, except that a call rejected for the altitude alone, made
\* at or after the end of the cooldown, clears the flag
C18_IgnoredAttempt ==
    (\/ ~ufo.spacebarWasReleased
     \/ ufo.isBeamOnCooldown /\ now < ufo.beamCooldownEndTime
     \/ ufo.pos.y - HeightAt(ufo.pos.x, ufo.pos.z) > 25000)
        => \A r \in {ToggleBeam(ufo, TRUE, now)} :
              /\ r.isBeamActive = ufo.isBeamActive
              /\ r.beamActivationTime = ufo.beamActivationTime
              /\ r.beamCooldownEndTime = ufo.beamCooldownEndTime
              /\ r.hasActiveCowInBeam = ufo.hasActiveCowInBeam
              /\ r.spacebarWasReleased = ufo.spacebarWasReleased
              /\ r.pos = ufo.pos
              /\ IF /\ ufo.spacebarWasReleased
                    /\ ufo.isBeamOnCooldown
                    /\ now >= ufo.beamCooldownEndTime
                 THEN ~r.isBeamOnCooldown
                 ELSE r.isBeamOnCooldown = ufo.isBeamOnCooldown

\* The trigger has been pressed above altitude 25 after the end of a
\* cooldown: the beam is off and has not come on since that cooldown began,
\* the cooldown flag is cleared and the cooldown end is still the old one
\* (a tick or a query would have set it to 0)
C18_Witness ==
    /\ ufo.pos.y - HeightAt(ufo.pos.x, ufo.pos.z) > 25000
    /\ ~ufo.isBeamActive
    /\ ufo.spacebarWasReleased
    /\ ~ufo.isBeamOnCooldown
    /\ ufo.beamCooldownEndTime # 0
    /\ now >= ufo.beamCooldownEndTime
    /\ ufo.beamActivationTime < ufo.beamCooldownEndTime - 1000

\* C19: when the cooldown flag is set and the clock has reached the cooldown
\* end, the per-tick path (checkBeamTimeout), the isOnCooldown query and
\* toggleBeam(true) leave the same cooldown flag and the same cooldown end
C19_AsStated ==
    (ufo.isBeamOnCooldown /\ now >= ufo.beamCooldownEndTime) =>
        \A tick \in {CheckBeamTimeout(ufo, now)} :
            \A query \in {AfterIsOnCooldown(ufo, now)} :
                \A press \in {ToggleBeam(ufo, TRUE, now)} :
                    /\ query.isBeamOnCooldown = tick.isBeamOnCooldown
                    /\ query.beamCooldownEndTime = tick.beamCooldownEndTime
                    /\ press.isBeamOnCooldown = tick.isBeamOnCooldown
                    /\ press.beamCooldownEndTime = tick.beamCooldownEndTime

-----------------------------------------------------------------------------
(* Properties of the terrain *)

-----------------------------------------------------------------------------
(* Properties of the capture *)

\* C21: checkCowAbduction calls startCooldownAfterCapture in a tick only if a
\* cow was captured in that tick and, after the call, no cow of the list is
\* being abducted
C21_AsStated ==
    FrameDue =>
        \A r \in {CaptureStage(PreCapture)} :
            r.captureComplete =>
                /\ r.captured # {}
                /\ \A i \in 1..Len(r.g.cows) : ~r.g.cows[i].isBeingAbducted

-----------------------------------------------------------------------------
(* Properties of the landing *)

\* C22: while frames keep running, every cow that is falling is later
\* neither falling nor being abducted, whatever the terrain height where
\* it falls
C22_AsStated ==
    \A i \in 1..NumCows :
        (i <= Len(cows) /\ cows[i].isFalling)
            ~> (i <= Len(cows) /\ ~cows[i].isFalling /\ ~cows[i].isBeingAbducted)

\* C23: setPosition applied to a falling cow with y <= 0.4 leaves it at the
\* new position, not falling, not being abducted, with fall velocity, spin
\* speed, tilt and horizontal velocity 0 and nothing else changed; applied
\* with y > 0.4, or to a cow that is not falling, it changes the position
\* only
C23_SetPositionLands ==
    \A i \in 1..Len(cows) :
        \A p \in CowPlaces :
            \A r \in {CowSetPosition(cows[i], p.x, p.y, p.z)} :
                IF cows[i].isFalling /\ p.y <= 400
                THEN /\ ~r.isFalling
                     /\ ~r.isBeingAbducted
                     /\ r.fallVelocity = 0
                     /\ r.spinSpeed = 0
                     /\ r.rotX = 0
                     /\ r.vel = [x |-> 0, z |-> 0]
                     /\ r = [cows[i] EXCEPT !.pos = p,
                                            !.isFalling = FALSE,
                                            !.fallVelocity = 0,
                                            !.spinSpeed = 0,
                                            !.rotX = 0,
                                            !.vel = [x |-> 0, z |-> 0]]
                ELSE r = [cows[i] EXCEPT !.pos = p]

\* A cow is falling with a fall velocity and a spin, and the places
\* setPosition can put it at include the height 0.4 itself and one above it
C23_Witness ==
    /\ cows[1].isFalling
    /\ cows[1].fallVelocity < 0
    /\ cows[1].spinSpeed # 0
    /\ \E p \in CowPlaces : p.y = 400
    /\ \E p \in CowPlaces : p.y > 400

-----------------------------------------------------------------------------
(* Properties of the altitude limit of the beam, of the colliders and of
   the fleeing *)

\* C24: in every reachable state in which the beam is active the UFO's
\* altitude is at most 25
C24_AsStated ==
    ufo.isBeamActive => ufo.pos.y - HeightAt(ufo.pos.x, ufo.pos.z) <= 25000

\* C25: a tick moves no free cow to a position whose horizontal distance to
\* a building or a fence of the terrain is less than the cow's radius (1)
\* plus the collider's radius
C25_AsStated ==
    FrameDue =>
        \A r \in {Simulate(G, now, NoPicks(Len(cows))).g} :
            \A i \in 1..Len(cows) :
                (/\ ~cows[i].isFalling
                 /\ ~cows[i].isBeingAbducted
                 /\ r.cows[i].pos # cows[i].pos) =>
                    \A k \in 1..Len(GetColliders) :
                        GetColliders[k].type \in {"building", "fence"} =>
                            Length2(r.cows[i].pos.x - GetColliders[k].pos.x,
                                    r.cows[i].pos.z - GetColliders[k].pos.z)
                                >= 1000 + ColliderRadius(GetColliders[k])

\* C26: updateColliders re-scans (the snapshot becomes the terrain's
\* colliders and the last-refresh time the clock reading) if and only if at
\* least 1000 ms have elapsed since the last refresh, and otherwise leaves
\* both unchanged
C26_AsStated ==
    \A r \in {UpdateColliders(G, now)} :
        IF now - lastColliderUpdate >= 1000
        THEN r = [G EXCEPT !.colliders = GetColliders, !.lastColliderUpdate = now]
        ELSE r = G

\* C26, amended: updateColliders re-scans if and only if more than 1000 ms
\* have elapsed since the last refresh; at exactly 1000 ms, and at less, the
\* snapshot and the last-refresh time are unchanged
C26_RefreshGate ==
    \A r \in {UpdateColliders(G, now)} :
        IF now - lastColliderUpdate > 1000
        THEN r = [G EXCEPT !.colliders = GetColliders, !.lastColliderUpdate = now]
        ELSE r = G

\* a frame has run exactly 1000 ms after a re-scan, and the last-refresh
\* time is still that of the re-scan; in another state more than 1000 ms
\* have elapsed
C26_Witness ==
    /\ hist.framed
    /\ lastColliderUpdate > 0
    /\ now - lastColliderUpdate = 1000
    /\ colliders = GetColliders

\* the type and place of every entry of the collider list cs
Listed(cs) == {[type |-> cs[k].type, pos |-> cs[k].pos] : k \in 1..Len(cs)}

\* C27: right after initialization, and right after each level reset, the
\* collider list holds every tree, building and fence decoration of the
\* terrain and nothing else
C27_AsStated ==
    \A want \in {Listed(SelectSeq(TerrainNodes,
                     LAMBDA n : n.type \in {"tree", "building", "fence"}))} :
        /\ (now = StartTime /\ hist = NoHistory) => Listed(colliders) = want
        /\ (isVictorySequence /\ ~hist.framed
                /\ now - victoryStartTime >= 13000) =>
               \A spawn \in SpawnChoices :
                   Listed(UpdateVictorySequence(G, now, spawn).colliders) = want

\* C28: an update of a free cow whose horizontal distance to the UFO is
\* less than 15 moves it with the velocity of magnitude 0.3 pointing
\* directly away from the UFO, whatever the UFO's height; at 15 or more the
\* cow keeps the velocity it had
C28_AsStated ==
    \A i \in 1..Len(cows) :
        (~cows[i].isFalling /\ ~cows[i].isBeingAbducted) =>
            \A r \in {CowUpdate(cows[i], ufo.pos, Null)} :
                [x |-> r.pos.x - cows[i].pos.x, z |-> r.pos.z - cows[i].pos.z]
                    = IF Length2(ufo.pos.x - cows[i].pos.x,
                                 ufo.pos.z - cows[i].pos.z) < 15000
                      THEN Scale2(Normalize2(ufo.pos.x - cows[i].pos.x,
                                             ufo.pos.z - cows[i].pos.z), -300)
                      ELSE cows[i].vel

\* C29: the tick that follows an activation of the beam (the beam came on
\* at this clock reading, after the tick before, or it is active and was
\* not at the end of the tick before) triggers the fleeing from the beam's
\* impact point, and a tick that follows no activation does not
C29_AsStated ==
    FrameDue =>
        \A r \in {Simulate(G, now, NoPicks(Len(cows)))} :
            /\ (hist.activatedAt = now \/ (ufo.isBeamActive /\ ~lastBeamActive))
                   => r.fled
            /\ r.fled => (ufo.isBeamActive /\ ~lastBeamActive)

\* C30: in every reachable state in which the reticle is visible the UFO's
\* altitude is at most 25 and the beam is neither active nor on cooldown
C30_AsStated ==
    ufo.reticleVisible =>
        /\ ufo.pos.y - HeightAt(ufo.pos.x, ufo.pos.z) <= 25000
        /\ ~ufo.isBeamActive
        /\ ~(ufo.isBeamOnCooldown /\ now < ufo.beamCooldownEndTime)

-----------------------------------------------------------------------------
(* Properties of the manual deactivation and of the trigger *)

\* C31: toggleBeam(false) clears the active flag and the caught-cow flag,
\* marks the trigger released, and leaves the cooldown flag and the cooldown
\* end as they were
C31_AsStated ==
    \A r \in {ToggleBeam(ufo, FALSE, now)} :
        /\ ~r.isBeamActive
        /\ ~r.hasActiveCowInBeam
        /\ r.spacebarWasReleased
        /\ r.isBeamOnCooldown = ufo.isBeamOnCooldown
        /\ r.beamCooldownEndTime = ufo.beamCooldownEndTime

\* C31, amended: toggleBeam(false) clears the active flag and the caught-cow
\* flag and marks the trigger released; a cooldown that has expired (flag
\* set, clock at or past the end) is cleared, flag and end, and otherwise
\* the flag and the end are left as they were, so no cooldown is started
\* and none is cleared or shortened before its end
C31_ManualOff ==
    \A r \in {ToggleBeam(ufo, FALSE, now)} :
        /\ ~r.isBeamActive
        /\ ~r.hasActiveCowInBeam
        /\ r.spacebarWasReleased
        /\ r.beamActivationTime = ufo.beamActivationTime
        /\ IF ufo.isBeamOnCooldown /\ now >= ufo.beamCooldownEndTime
           THEN ~r.isBeamOnCooldown /\ r.beamCooldownEndTime = 0
           ELSE /\ r.isBeamOnCooldown = ufo.isBeamOnCooldown
                /\ r.beamCooldownEndTime = ufo.beamCooldownEndTime

\* the trigger was released during a cooldown that a timeout started, and
\* the cooldown is still running
C31_Witness ==
    /\ hist.lastDeact = "timeout"
    /\ ufo.spacebarWasReleased
    /\ ~ufo.isBeamActive
    /\ ufo.isBeamOnCooldown
    /\ now < ufo.beamCooldownEndTime

\* C32: a tick's capture-complete leaves the beam inactive, on cooldown
\* until 1000 ms later and the trigger marked released, and from then on a
\* toggleBeam(true) at or after the cooldown end, at an altitude of at most
\* 25, activates the beam whether or not the trigger was released in
\* between; a tick's timeout leaves the trigger marked held, and until a
\* release toggleBeam(true) changes nothing
C32_ReleasedAfterCapture ==
    /\ FrameDue =>
          \A r \in {Simulate(G, now, NoPicks(Len(cows)))} :
              /\ r.captureComplete =>
                    /\ ~r.g.ufo.isBeamActive
                    /\ r.g.ufo.isBeamOnCooldown
                    /\ r.g.ufo.beamCooldownEndTime = now + 1000
                    /\ r.g.ufo.spacebarWasReleased
              /\ r.timedOut =>
                    /\ ~r.g.ufo.isBeamActive
                    /\ r.g.ufo.isBeamOnCooldown
                    /\ r.g.ufo.beamCooldownEndTime = now + 1000
                    /\ ~r.g.ufo.spacebarWasReleased
    /\ (/\ hist.lastDeact = "capture"
        /\ ~ufo.isBeamActive
        /\ ~(ufo.isBeamOnCooldown /\ now < ufo.beamCooldownEndTime)
        /\ ufo.pos.y - HeightAt(ufo.pos.x, ufo.pos.z) <= 25000) =>
           \A r \in {ToggleBeam(ufo, TRUE, now)} :
               r.isBeamActive /\ r.beamActivationTime = now
    /\ (hist.lastDeact = "timeout" /\ ~ufo.isBeamActive /\ ~hist.released) =>
           ToggleBeam(ufo, TRUE, now) = ufo

\* the beam is active again after a capture-complete with no release of the
\* trigger since
C32_Witness ==
    /\ hist.lastDeact = "capture"
    /\ ~hist.released
    /\ ufo.isBeamActive
    /\ ufo.beamActivationTime > StartTime

-----------------------------------------------------------------------------
(* Properties of the UFO's move *)

\* C33: a tick whose candidate position checkCollision rejects leaves the
\* UFO's position and yaw as they were; a tick whose candidate is accepted
\* puts the UFO exactly at the candidate
C33_MoveOnlyIfAccepted ==
    FrameDue =>
        \A cand \in {GetNextPosition(ufo, keys)} :
            \A r \in {Simulate(G, now, NoPicks(Len(cows))).g.ufo} :
                IF CheckCollisionUfo(G, cand, 2000, now).hit
                THEN r.pos = ufo.pos /\ r.rotY = ufo.rotY
                ELSE r.pos = cand

\* a frame has run with the descent and a turn commanded at the floor: the
\* candidate was rejected and the UFO is where and as it was
C33_Witness ==
    /\ hist.framed
    /\ keys = {"keyx", "keya"}
    /\ ufo.rotY = 0
    /\ ufo.pos.y - 300 < HeightAt(ufo.pos.x, ufo.pos.z) + 2000
    /\ CheckCollisionUfo(G, GetNextPosition(ufo, keys), 2000, now).hit

\* C34: outside the victory sequence the UFO is at least 2 above the
\* terrain in every reachable state, and so it is where the constructor and
\* the level reset put it
C34_FloorClearance ==
    /\ ~isVictorySequence => ufo.pos.y >= HeightAt(ufo.pos.x, ufo.pos.z) + 2000
    /\ \A u \in {NewUfo(ResetHeight)} \cup
                {ResetGame(G, spawn).ufo : spawn \in SpawnChoices} :
           u.pos.y >= HeightAt(u.pos.x, u.pos.z) + 2000

\* a frame has run with a move commanded that would have taken the UFO
\* below the clearance: forward over rising ground, or down at the floor
C34_Witness ==
    /\ hist.framed
    /\ keys \in {{"keyw"}, {"keyx"}}
    /\ \E p \in {GetNextPosition(ufo, keys)} :
           p.y < HeightAt(p.x, p.z) + 2000

-----------------------------------------------------------------------------
(* Properties of the cows' fields and of the lift *)

\* C35: in every reachable state every cow has an abduction target if and
\* only if it is being abducted, and a fall velocity other than 0 only
\* while it is falling
C35_FieldsFollowState ==
    \A i \in 1..Len(cows) :
        /\ (cows[i].abductionTarget # Null) <=> cows[i].isBeingAbducted
        /\ cows[i].fallVelocity # 0 => cows[i].isFalling

\* a cow dropped from the beam is falling with a fall velocity and no target
C35_Witness ==
    \E i \in 1..Len(cows) :
        /\ cows[i].isFalling
        /\ cows[i].fallVelocity < 0
        /\ cows[i].abductionTarget = Null
        /\ hist.lastDeact \in {"manual", "timeout", "altitude", "capture"}

\* C36: an update of a cow that is being abducted leaves it no more than 2
\* (up to rounding) from the UFO position it was given, horizontally,
\* whatever the distance was before, and does not lower it
C36_HeldInBand ==
    [][(hist'.updates = hist.updates + 1 /\ cows[1].isBeingAbducted) =>
          /\ HorizontalDistance(cows'[1], ufo.pos) <= 2000 + RoundingSlack
          /\ cows'[1].pos.y >= cows[1].pos.y]_vars

\* The last call was an update of the cow being abducted, more than 2 and
\* no more than 3 from the UFO
C36_Witness ==
    /\ hist.call.op = "update"
    /\ hist.call.dist > 2000
    /\ hist.call.dist <= 3000
    /\ cows[1].isBeingAbducted
    /\ HorizontalDistance(cows[1], ufo.pos) <= 2000 + RoundingSlack

-----------------------------------------------------------------------------
(* Properties of what a capture requires *)

\* C37: the capture evaluation of a tick collects only cows that were being
\* abducted before the tick, with the beam active, less than 2 from the UFO
\* horizontally and less than 2 below it; no cow is collected in the tick in
\* which its abduction starts, and none while the beam is inactive
C37_CaptureRequires ==
    FrameDue =>
        \A pre \in {PreCapture} :
            \A post \in {CaptureStage(pre)} :
                /\ post.captured \cap post.started = {}
                /\ post.captured # {} => (ufo.isBeamActive /\ pre.g.ufo.isBeamActive)
                /\ \A i \in post.captured :
                      /\ cows[i].isBeingAbducted
                      /\ pre.g.cows[i].isBeingAbducted
                      /\ Length2(pre.g.cows[i].pos.x - pre.g.ufo.pos.x,
                                 pre.g.cows[i].pos.z - pre.g.ufo.pos.z) < 2000
                      /\ pre.g.ufo.pos.y - pre.g.cows[i].pos.y < 2000

\* a tick has collected a cow and started the abduction of another
C37_Witness ==
    /\ hist.framed
    /\ hist.captured >= 1
    /\ \E i \in 1..Len(cows) :
           /\ cows[i].isBeingAbducted
           /\ cows[i].abductionSpeed = 200
           /\ ufo.pos.y - cows[i].pos.y > 2000

-----------------------------------------------------------------------------
(* Properties of the UFO's flags *)

\* C38: in every reachable state an active beam has the trigger marked held
\* (spacebarWasReleased false), and the mark changes to released only in a
\* step that leaves the beam inactive: a toggleBeam(false), from the keyup
\* or from the altitude rule of a tick, or the capture-complete of a tick
C38_HeldWhileActive ==
    /\ [](ufo.isBeamActive => ~ufo.spacebarWasReleased)
    /\ [][(~ufo.spacebarWasReleased /\ ufo'.spacebarWasReleased) =>
             /\ ~ufo'.isBeamActive
             /\ \/ ReleaseStep /\ ufo' = ToggleBeam(ufo, FALSE, now)
                \/ /\ SimStep
                   /\ ufo.isBeamActive
                   /\ hist'.lastDeact \in {"altitude", "capture"}]_vars

\* the beam is active again, the trigger marked held, after a release had
\* switched it off
C38_Witness ==
    /\ ufo.isBeamActive
    /\ ~ufo.spacebarWasReleased
    /\ hist.lastDeact = "manual"
    /\ hist.released

\* C39: in every reachable state the caught-cow flag (hasActiveCowInBeam)
\* is set only while the beam is active, and then the beam is not on
\* cooldown; the flag is set only by a tick of an active beam in which a
\* cow's abduction started, and it is cleared only in a step that leaves the
\* beam inactive
C39_CaughtOnlyWhileActive ==
    /\ [](ufo.hasActiveCowInBeam => (ufo.isBeamActive /\ ~ufo.isBeamOnCooldown))
    /\ [][(~ufo.hasActiveCowInBeam /\ ufo'.hasActiveCowInBeam) =>
             /\ SimStep
             /\ ufo.isBeamActive
             /\ ufo'.isBeamActive
             /\ hist'.caught]_vars
    /\ [][(ufo.hasActiveCowInBeam /\ ~ufo'.hasActiveCowInBeam) =>
             ~ufo'.isBeamActive]_vars

\* a cow has been lifted for a second and more by a beam that is still
\* active, the flag set
C39_Witness ==
    /\ ufo.hasActiveCowInBeam
    /\ ufo.isBeamActive
    /\ hist.caught
    /\ now - ufo.beamActivationTime >= 1000
    /\ hist.framed

=============================================================================
